---------------------------- MODULE Spec2Model ----------------------------
(***************************************************************************)
(* Finaura Pro (server.py): the paper-trading ledger (SQLite tables        *)
(* user_balance, portfolio, transactions), the buy and sell request        *)
(* handlers run by concurrent request threads, and the live price cache    *)
(* with the threads that refresh and read it.                              *)
(*                                                                         *)
(* REAL columns and Python floats are IEEE-754 doubles, computed with the  *)
(* rounding of every operation, with overflow to the infinities, gradual   *)
(* underflow, signed zeros and NaN.                                        *)
(* Symbols are sequences of one-character strings, so that upper() and     *)
(* replace('.', '-') are computed and not assumed.                         *)
(***************************************************************************)
EXTENDS Integers, Sequences, FiniteSets, TLC

(***************************************************************************)
(* Natural numbers of any size: sequences of 14-bit limbs, least           *)
(* significant first, no zero limb at the top                              *)
(***************************************************************************)
LimbBits == 14
Base == 16384

Pow2(k) == 2^k

RECURSIVE BigNorm(_)
BigNorm(a) ==
    IF a = <<>> THEN a
    ELSE IF a[Len(a)] = 0 THEN BigNorm(SubSeq(a, 1, Len(a) - 1))
    ELSE a

RECURSIVE BigFromInt(_)
BigFromInt(n) ==
    IF n = 0 THEN <<>> ELSE <<n % Base>> \o BigFromInt(n \div Base)

Limb(a, i) == IF i <= Len(a) THEN a[i] ELSE 0

RECURSIVE BigAddFrom(_, _, _, _)
BigAddFrom(a, b, i, carry) ==
    IF i > Len(a) /\ i > Len(b)
    THEN IF carry = 0 THEN <<>> ELSE <<carry>>
    ELSE LET s == Limb(a, i) + Limb(b, i) + carry
         IN  <<s % Base>> \o BigAddFrom(a, b, i + 1, s \div Base)

BigAdd(a, b) == BigAddFrom(a, b, 1, 0)

\* a - b for a >= b
RECURSIVE BigSubFrom(_, _, _, _)
BigSubFrom(a, b, i, borrow) ==
    IF i > Len(a) THEN <<>>
    ELSE LET d == Limb(a, i) - Limb(b, i) - borrow
         IN  <<IF d < 0 THEN d + Base ELSE d>>
             \o BigSubFrom(a, b, i + 1, IF d < 0 THEN 1 ELSE 0)

BigSub(a, b) == BigNorm(BigSubFrom(a, b, 1, 0))

\* -1, 0, 1 as a < b, a = b, a > b
RECURSIVE BigCmpFrom(_, _, _)
BigCmpFrom(a, b, i) ==
    IF i = 0 THEN 0
    ELSE IF a[i] < b[i] THEN -1
    ELSE IF a[i] > b[i] THEN 1
    ELSE BigCmpFrom(a, b, i - 1)

BigCmp(a, b) ==
    IF Len(a) < Len(b) THEN -1
    ELSE IF Len(a) > Len(b) THEN 1
    ELSE BigCmpFrom(a, b, Len(a))

\* a * k for 0 <= k < Base
RECURSIVE BigMulSmallFrom(_, _, _, _)
BigMulSmallFrom(a, k, i, carry) ==
    IF i > Len(a)
    THEN IF carry = 0 THEN <<>> ELSE <<carry>>
    ELSE LET p == a[i] * k + carry
         IN  <<p % Base>> \o BigMulSmallFrom(a, k, i + 1, p \div Base)

BigMulSmall(a, k) == IF k = 0 THEN <<>> ELSE BigMulSmallFrom(a, k, 1, 0)

ShiftLimbs(a, n) == IF a = <<>> THEN a ELSE [i \in 1..n |-> 0] \o a

RECURSIVE BigMulFrom(_, _, _)
BigMulFrom(a, b, j) ==
    IF j > Len(b) THEN <<>>
    ELSE BigAdd(ShiftLimbs(BigMulSmall(a, b[j]), j - 1), BigMulFrom(a, b, j + 1))

BigMul(a, b) == BigMulFrom(a, b, 1)

\* a * 2^bits
BigShl(a, bits) ==
    IF bits = 0 THEN a
    ELSE ShiftLimbs(BigMulSmall(a, Pow2(bits % LimbBits)), bits \div LimbBits)

\* floor(a / 2^bits)
BigShr(a, bits) ==
    LET drop == bits \div LimbBits
        r == bits % LimbBits
        top == IF drop >= Len(a) THEN <<>> ELSE SubSeq(a, drop + 1, Len(a))
    IN  BigNorm([i \in 1..Len(top) |->
                    (top[i] \div Pow2(r))
                    + (Limb(top, i + 1) % Pow2(r)) * Pow2(LimbBits - r)])

RECURSIVE BitLenSmall(_)
BitLenSmall(n) == IF n = 0 THEN 0 ELSE 1 + BitLenSmall(n \div 2)

BigBitLen(a) ==
    IF a = <<>> THEN 0
    ELSE LimbBits * (Len(a) - 1) + BitLenSmall(a[Len(a)])

\* bit i of a, bit 0 the least significant
BigBit(a, i) == (Limb(a, i \div LimbBits + 1) \div Pow2(i % LimbBits)) % 2

\* bits 0 .. n-1 of a are all 0
LowBitsZero(a, n) ==
    /\ \A i \in 1..(n \div LimbBits) : Limb(a, i) = 0
    /\ Limb(a, n \div LimbBits + 1) % Pow2(n % LimbBits) = 0

RECURSIVE TrailingZerosSmall(_)
TrailingZerosSmall(n) == IF n % 2 = 1 THEN 0 ELSE 1 + TrailingZerosSmall(n \div 2)

\* the number of 0 bits below the lowest 1 bit of a # 0
RECURSIVE TrailingZeros(_)
TrailingZeros(a) ==
    IF a[1] = 0 THEN LimbBits + TrailingZeros(Tail(a))
    ELSE TrailingZerosSmall(a[1])

\* the largest d in lo..hi with b * d <= cur
RECURSIVE Digit(_, _, _, _)
Digit(cur, b, lo, hi) ==
    IF lo = hi THEN lo
    ELSE LET mid == (lo + hi + 1) \div 2
         IN  IF BigCmp(BigMulSmall(b, mid), cur) <= 0
             THEN Digit(cur, b, mid, hi)
             ELSE Digit(cur, b, lo, mid - 1)

\* the largest d with b * d <= cur, for cur < b * Base and the top limb of
\* b at least Base / 2: the top limbs of cur and b give d to within 2
QuotientDigit(cur, b) ==
    LET n == Len(b)
        ct == Limb(cur, n + 1) * Base + Limb(cur, n)
        hi == ct \div b[n]
    IN  Digit(cur, b, ct \div (b[n] + 1), IF hi < Base THEN hi ELSE Base - 1)

\* long division of a by b, from limb i of a down, rem the remainder so far
RECURSIVE BigDivFrom(_, _, _, _)
BigDivFrom(a, b, i, rem) ==
    IF i = 0 THEN [q |-> <<>>, r |-> rem]
    ELSE LET cur == BigNorm(<<a[i]>> \o rem)
             d == QuotientDigit(cur, b)
             rest == BigDivFrom(a, b, i - 1, BigSub(cur, BigMulSmall(b, d)))
         IN  [q |-> Append(rest.q, d), r |-> rest.r]

\* floor(a / b) and whether the division left no remainder, for b # 0; both
\* are shifted so that the top limb of b is at least Base / 2
BigDiv(a, b) ==
    LET s == LimbBits - BitLenSmall(b[Len(b)])
        x == BigShl(a, s)
        d == BigDivFrom(x, BigShl(b, s), Len(x), <<>>)
    IN  [q |-> BigNorm(d.q), exact |-> d.r = <<>>]

(***************************************************************************)
(* IEEE-754 doubles (Python float, SQLite REAL). <<sign, m, e>> with m a    *)
(* natural number other than 0 stands for sign * m * 2^e: sign is -1 or 1,  *)
(* m is odd and below 2^53, e is at least -1074 and m * 2^e is below       *)
(* 2^1024 (the subnormal numbers are those with e = -1074 .. -1023 whose   *)
(* m has fewer bits than 53 would allow at that exponent). With m = <<>>    *)
(* the value is 0.0, -0.0, an infinity or NaN, as named below. Every       *)
(* operation rounds its exact result to the nearest double, ties to the    *)
(* even mantissa: a result of 2^1024 or more after rounding is an          *)
(* infinity, a result below 2^-1074 is rounded to a multiple of 2^-1074,   *)
(* which may be a zero of the result's sign.                               *)
(***************************************************************************)
Zero == <<0, <<>>, 0>>
NegZero == <<0, <<>>, -1>>
PosInf == <<1, <<>>, 0>>
NegInf == <<-1, <<>>, 0>>
NaN == <<0, <<>>, 1>>

\* None where a float is expected: what a REAL column that holds NULL gives
Null == <<0, <<>>, 2>>

\* What float / float raises for a divisor of 0.0 or -0.0
ZeroDivisionError == <<0, <<>>, 3>>

MantBits == 53

\* A double is below 2^MaxExp and a multiple of 2^MinExp
MaxExp == 1024
MinExp == -1074

IsZero(a) == a = Zero \/ a = NegZero
IsInf(a) == a = PosInf \/ a = NegInf

\* -1 or 1: the sign bit of a, which is not NaN
SignOf(a) == IF a[1] # 0 THEN a[1] ELSE IF a = NegZero THEN -1 ELSE 1

ZeroOf(sign) == IF sign < 0 THEN NegZero ELSE Zero
InfOf(sign) == IF sign < 0 THEN NegInf ELSE PosInf

\* sign * m * 2^e with whatever lies below m (`sticky`: something does),
\* rounded once to the nearest double: to 53 bits, or to the fewer bits that
\* lie at or above 2^MinExp
Round(sign, m, e, sticky) ==
    IF m = <<>> THEN ZeroOf(sign)
    ELSE LET len == BigBitLen(m)
             over == IF len - MantBits >= MinExp - e THEN len - MantBits
                     ELSE MinExp - e
             cut == IF over > 0 THEN over ELSE 0
             kept == BigShr(m, cut)
             up == /\ cut > 0
                   /\ BigBit(m, cut - 1) = 1
                   /\ \/ ~LowBitsZero(m, cut - 1)
                      \/ sticky
                      \/ BigBit(kept, 0) = 1
             r == IF up THEN BigAdd(kept, <<1>>) ELSE kept
         IN  IF r = <<>> THEN ZeroOf(sign)
             ELSE IF BigBitLen(r) + e + cut > MaxExp THEN InfOf(sign)
             ELSE LET tz == TrailingZeros(r)
                  IN  <<sign, BigShr(r, tz), e + cut + tz>>

\* float(n) for an integer n, which has far fewer than 53 bits
R(n) ==
    IF n = 0 THEN Zero
    ELSE LET abs == IF n < 0 THEN -n ELSE n
             tz == TrailingZerosSmall(abs)
         IN  <<IF n < 0 THEN -1 ELSE 1, BigFromInt(abs \div Pow2(tz)), tz>>

\* Exponents at which a mantissa of at most 31 bits is a double as it stands,
\* neither too large nor below the smallest subnormal
InRange(e) == e \in -1000..900

\* Both are finite and not 0, both mantissas fit one limb, and the
\* exponents are at most 15 apart and far from the ends of the range: the
\* sum, the difference and the order are exact in machine integers
Near(a, b) ==
    /\ Len(a[2]) = 1 /\ Len(b[2]) = 1
    /\ a[3] - b[3] \in -15..15
    /\ InRange(a[3]) /\ InRange(b[3])

\* a / 2^e and b / 2^e as integers, e the smaller exponent, for Near(a, b)
Aligned(a, b) ==
    LET e == IF a[3] < b[3] THEN a[3] ELSE b[3]
    IN  [e |-> e, x |-> a[1] * a[2][1] * Pow2(a[3] - e),
                  y |-> b[1] * b[2][1] * Pow2(b[3] - e)]

\* n * 2^e for an integer n of at most 30 bits and e in range; 0 is the sum
\* of two numbers of opposite sign, which is 0.0
Scaled(n, e) ==
    IF n = 0 THEN Zero ELSE LET r == R(n) IN <<r[1], r[2], r[3] + e>>

\* -a
RNeg(a) ==
    IF a[2] # <<>> \/ IsInf(a) THEN <<-a[1], a[2], a[3]>>
    ELSE IF a = Zero THEN NegZero
    ELSE IF a = NegZero THEN Zero
    ELSE a

\* -1, 0, 1 as |a| < |b|, |a| = |b|, |a| > |b|, for a, b finite and not 0:
\* by the place of the top bit, or bit by bit when that is the same
CmpAbs(a, b) ==
    LET e == IF a[3] < b[3] THEN a[3] ELSE b[3]
        topA == BigBitLen(a[2]) + a[3]
        topB == BigBitLen(b[2]) + b[3]
    IN  IF topA < topB THEN -1
        ELSE IF topA > topB THEN 1
        ELSE BigCmp(BigShl(a[2], a[3] - e), BigShl(b[2], b[3] - e))

\* Where a stands among the infinities, the negative and the positive
\* numbers and the two zeros, which are equal
Rank(a) == IF a[2] # <<>> THEN a[1] ELSE 2 * a[1]

\* -1, 0, 1 as a < b, a = b, a > b; 2 when one of them is NaN, which is
\* neither below, nor equal to, nor above any number
RCmp(a, b) ==
    IF a[2] # <<>> /\ b[2] # <<>>
    THEN IF Near(a, b)
         THEN LET al == Aligned(a, b)
              IN  IF al.x < al.y THEN -1 ELSE IF al.x > al.y THEN 1 ELSE 0
         ELSE IF a[1] # b[1] THEN (IF a[1] < b[1] THEN -1 ELSE 1)
         ELSE a[1] * CmpAbs(a, b)
    ELSE IF a = NaN \/ b = NaN THEN 2
    ELSE IF Rank(a) < Rank(b) THEN -1
    ELSE IF Rank(a) > Rank(b) THEN 1
    ELSE 0

RLess(a, b) == RCmp(a, b) = -1
RLeq(a, b) == RCmp(a, b) \in {-1, 0}

\* With exponents further apart than this the smaller of two numbers lies
\* below a 2^-60th of the last bit of the larger: the sum is rounded as if
\* the smaller were 2^-FarApart of that bit, which is as far from deciding
\* the rounding
FarApart == 120

\* a + b where a or b is a zero, an infinity or NaN
AddSpecial(a, b) ==
    IF a = NaN \/ b = NaN THEN NaN
    ELSE IF IsInf(a) THEN (IF IsInf(b) /\ a # b THEN NaN ELSE a)
    ELSE IF IsInf(b) THEN b
    ELSE IF a[2] # <<>> THEN a
    ELSE IF b[2] # <<>> THEN b
    ELSE IF a = NegZero /\ b = NegZero THEN NegZero
    ELSE Zero

\* a + b for finite a, b other than 0, their exponents at most FarApart
\* apart: the sum or the difference of the aligned mantissas, with the sign
\* of the larger, rounded
AddFinite(a, b) ==
    LET e == IF a[3] < b[3] THEN a[3] ELSE b[3]
        x == BigShl(a[2], a[3] - e)
        y == BigShl(b[2], b[3] - e)
        c == BigCmp(x, y)
        hi == IF c < 0 THEN y ELSE x
        lo == IF c < 0 THEN x ELSE y
        m == IF a[1] = b[1] THEN BigAdd(hi, lo) ELSE BigSub(hi, lo)
    IN  IF m = <<>> THEN Zero
        ELSE Round(IF c < 0 THEN b[1] ELSE a[1], m, e, FALSE)

\* a + b
RAdd(a, b) ==
    IF a[2] = <<>> \/ b[2] = <<>> THEN AddSpecial(a, b)
    ELSE IF Near(a, b)
    THEN LET al == Aligned(a, b) IN Scaled(al.x + al.y, al.e)
    ELSE AddFinite(IF b[3] - a[3] > FarApart
                   THEN <<a[1], <<1>>, b[3] - FarApart>> ELSE a,
                   IF a[3] - b[3] > FarApart
                   THEN <<b[1], <<1>>, a[3] - FarApart>> ELSE b)

\* a - b
RSub(a, b) == RAdd(a, RNeg(b))

\* a * b where a or b is a zero, an infinity or NaN
MulSpecial(a, b) ==
    IF a = NaN \/ b = NaN THEN NaN
    ELSE IF (IsInf(a) /\ IsZero(b)) \/ (IsZero(a) /\ IsInf(b)) THEN NaN
    ELSE IF IsInf(a) \/ IsInf(b) THEN InfOf(SignOf(a) * SignOf(b))
    ELSE ZeroOf(SignOf(a) * SignOf(b))

\* a * b
RMul(a, b) ==
    IF a[2] = <<>> \/ b[2] = <<>> THEN MulSpecial(a, b)
    ELSE IF Len(a[2]) = 1 /\ Len(b[2]) = 1 /\ InRange(a[3] + b[3])
    THEN <<a[1] * b[1], BigFromInt(a[2][1] * b[2][1]), a[3] + b[3]>>
    ELSE Round(a[1] * b[1], BigMul(a[2], b[2]), a[3] + b[3], FALSE)

\* a / b where a or b is a zero, an infinity or NaN
DivSpecial(a, b) ==
    IF IsZero(b) THEN ZeroDivisionError
    ELSE IF a = NaN \/ b = NaN THEN NaN
    ELSE IF IsInf(a) /\ IsInf(b) THEN NaN
    ELSE IF IsInf(a) THEN InfOf(SignOf(a) * SignOf(b))
    ELSE ZeroOf(SignOf(a) * SignOf(b))

\* a / b: the quotient of the mantissas to 56 bits or more, and whether
\* anything is left below them
RDiv(a, b) ==
    IF a[2] = <<>> \/ b[2] = <<>> THEN DivSpecial(a, b)
    ELSE IF /\ Len(a[2]) = 1 /\ Len(b[2]) = 1 /\ a[2][1] % b[2][1] = 0
            /\ InRange(a[3] - b[3])
    THEN <<a[1] * b[1], <<a[2][1] \div b[2][1]>>, a[3] - b[3]>>
    ELSE LET k == MantBits + 3 + BigBitLen(b[2]) - BigBitLen(a[2])
             d == BigDiv(BigShl(a[2], k), b[2])
         IN  Round(a[1] * b[1], d.q, a[3] - b[3] - k, ~d.exact)

\* What a REAL column holds after the value is bound to a statement and
\* stored: NaN is bound as NULL, and -0.0 is stored as 0.0
Real(x) == IF x = NaN THEN Null ELSE IF x = NegZero THEN Zero ELSE x

(***************************************************************************)
(* Program constants and the bounded input sets                            *)
(***************************************************************************)
INITIAL_BALANCE == 25000

MaxRequests == 3

\* The trade requests a run is followed for where the trades are the
\* setting and not the subject
MaxSideTrades == 2

Users == {1, 2}
Threads == {1, 2}

\* The account whose requests the concurrent specification overlaps
ConcurrentUsers == {1}

API == <<"A", "P", "I">>
CIT == <<"C", "I", "T">>

\* The doubles nearest to 0.1 and 0.2
TENTH == <<1, <<3277, 13107, 3276, 819>>, -55>>
FIFTH == <<1, <<3277, 13107, 3276, 819>>, -54>>

\* Request bodies <<symbol, shares, price>>: well-formed ones, of which two
\* have shares that no double holds exactly and one a lower-case symbol, and
\* one each with no symbol, no shares and no price
TradeInputs ==
    {<<API, R(10), R(500)>>,
     <<API, R(40), R(625)>>,
     <<CIT, R(10), R(500)>>,
     << <<"a", "p", "i">>, TENTH, R(500)>>,
     <<API, FIFTH, R(500)>>,
     << <<>>, R(10), R(500)>>,
     <<API, R(0), R(500)>>,
     <<CIT, R(10), R(0)>>}

\* A symbol written with a dot, and as the other provider writes it
A_DOT_P == <<"A", ".", "P">>
A_DASH_P == <<"A", "-", "P">>

\* The request bodies sent while another request is running: a part of
\* TradeInputs, with a buy that two overlapping requests can both afford
\* only by the same balance
ConcurrentInputs ==
    {<<API, R(10), R(500)>>,
     <<API, R(40), R(500)>>}

\* The letters str.upper() changes in the symbols of this market, which are
\* written in ASCII
LowerCase == <<"a", "b", "c", "d", "e", "f", "g", "h", "i", "j", "k", "l", "m",
               "n", "o", "p", "q", "r", "s", "t", "u", "v", "w", "x", "y", "z">>
UpperCase == <<"A", "B", "C", "D", "E", "F", "G", "H", "I", "J", "K", "L", "M",
               "N", "O", "P", "Q", "R", "S", "T", "U", "V", "W", "X", "Y", "Z">>

\* str.upper() of one character: a lower-case letter becomes its capital,
\* every other character stays
UpperChar(ch) ==
    IF \E i \in 1..26 : LowerCase[i] = ch
    THEN UpperCase[CHOOSE i \in 1..26 : LowerCase[i] = ch]
    ELSE ch

Upper(s) == [i \in 1..Len(s) |-> UpperChar(s[i])]

\* sym.replace('.', '-')
DotToDash(s) == [i \in 1..Len(s) |-> IF s[i] = "." THEN "-" ELSE s[i]]

(***************************************************************************)
(* State                                                                   *)
(***************************************************************************)
VARIABLES
    prices,        \* _prices: symbol -> quote (the live price cache)
    user_balance,  \* table user_balance: user_id -> balance
    portfolio,     \* table portfolio: <<user_id, symbol>> -> [shares, avg_price]
    transactions,  \* table transactions, in insertion (id) order
    dbLocked,      \* an abandoned, still open connection holds the write lock
    session,       \* users holding a session ("uid" in session)
    thr,           \* per request thread: position in the handler and its locals
    nreq,          \* number of trade requests received
    epoch,         \* history: ledger when the running requests started, and them
    asked,         \* history: the body of the last trade request, as sent
    lock,          \* _prices_lock: "free" or the thread holding it
    refr,          \* per refresh thread: position in refresh_all_prices, locals
    rd,            \* the thread reading the cache: position, locals
    merged,        \* history: _prices as the last completed merge left it
    limit_orders,  \* table limit_orders, in insertion (id) order
    clock,         \* CURRENT_TIMESTAMP, in whole seconds since start
    view,          \* the last response of me or of a limit-order or watchlist route
    feed,          \* the last adapter call: what the provider served, the result
    watchlist      \* table watchlist: the <<user_id, symbol>> rows

vars == <<prices, user_balance, portfolio, transactions, dbLocked, session,
          thr, nreq, epoch, asked, lock, refr, rd, merged, limit_orders,
          clock, view, feed, watchlist>>

\* The price-cache threads' state, which the request handlers leave alone
cacheVars == <<lock, refr, rd, merged>>

\* The limit-order and watchlist tables, the clock, and the last account
\* response and adapter call, which the trade handlers and the cache threads
\* leave alone
deskVars == <<limit_orders, clock, view, feed, watchlist>>

None == [none |-> TRUE]

Idle == [pc |-> "idle"]

\* The committed contents of the three ledger tables
Ledger == [balance |-> user_balance, portfolio |-> portfolio,
           transactions |-> transactions]

(***************************************************************************)
(* Live price cache                                                        *)
(***************************************************************************)
Quote(sym, price) == [symbol |-> sym, price |-> price]

EmptyDict == [k \in {} |-> None]

\* What one adapter call may return: {} or a symbol -> quote mapping
FetchResults == {EmptyDict, [k \in {API} |-> Quote(API, R(600))]}

\* dict.update(results)
DictUpdate(d, results) ==
    [k \in DOMAIN d \cup DOMAIN results |->
        IF k \in DOMAIN results THEN results[k] ELSE d[k]]

\* _prices.get(symbol)
get_price(cache, symbol) ==
    IF symbol \in DOMAIN cache THEN cache[symbol] ELSE None

\* Mutant: a positive price sent by the caller wins over the quote
LivePriceClientFirst(live, clientPrice) ==
    IF RLess(Zero, clientPrice) \/ live = None THEN clientPrice ELSE live.price

\* prc = float(live["price"]) if live else float(d.get("price", 0))
LivePrice(live, clientPrice) ==
    IF live # None THEN live.price ELSE clientPrice

(***************************************************************************)
(* Ledger helpers                                                          *)
(***************************************************************************)
\* get_balance(uid) on a user_balance table: the balance column, which may
\* hold NULL, or INITIAL_BALANCE without a row
get_balance(balances, uid) ==
    IF uid \in DOMAIN balances THEN balances[uid] ELSE R(INITIAL_BALANCE)

\* SELECT shares, avg_price FROM portfolio WHERE user_id=? AND symbol=?
SelectPosition(pf, uid, sym) ==
    IF <<uid, sym>> \in DOMAIN pf THEN pf[<<uid, sym>>] ELSE None

\* UPDATE user_balance SET balance=? WHERE user_id=?
UpdateBalance(balances, uid, newBal) ==
    IF uid \in DOMAIN balances
    THEN [balances EXCEPT ![uid] = newBal]
    ELSE balances

\* Mutant: the symbol is not checked
InvalidParametersSharesOnly(sym, shrs) == RLeq(shrs, Zero)

\* shrs <= 0 or not sym
InvalidParameters(sym, shrs) == RLeq(shrs, Zero) \/ sym = <<>>

\* Mutant: the funds check rejects a total equal to the balance
InsufficientFundsLeq(bal, total) == RLeq(bal, total)

\* Mutant: the funds check is missing
InsufficientFundsNever(bal, total) == FALSE

\* bal < total
InsufficientFunds(bal, total) == RLess(bal, total)

\* Mutant: the shares check rejects selling exactly what is held
InsufficientSharesLeq(pos, shrs) ==
    IF pos = None THEN TRUE ELSE RLeq(pos.shares, shrs)

\* not pos or pos["shares"] < shrs
InsufficientShares(pos, shrs) ==
    IF pos = None THEN TRUE ELSE RLess(pos.shares, shrs)

\* Mutant: the UPDATE branch adds the shares and keeps the old average
BuyAverageKept(existing, shrs, total) ==
    [shares |-> RAdd(existing.shares, shrs), avg_price |-> existing.avg_price]

\* new_shares, new_avg of buy's UPDATE branch
BuyAverage(existing, shrs, total) ==
    LET new_shares == RAdd(existing.shares, shrs)
    IN  [shares    |-> new_shares,
         avg_price |-> RDiv(RAdd(RMul(existing.avg_price, existing.shares), total),
                            new_shares)]

\* Mutant: cost minus price
SellPnlFlipped(pos, shrs, prc) == RMul(RSub(pos.avg_price, prc), shrs)

\* pnl = (prc - pos["avg_price"]) * shrs
SellPnl(pos, shrs, prc) == RMul(RSub(prc, pos.avg_price), shrs)

\* The row INSERT INTO transactions stores for a buy; the timestamp column
\* takes its default, CURRENT_TIMESTAMP
BuyTx(uid, sym, shrs, prc, total) ==
    [user_id |-> uid, symbol |-> sym, type |-> "BUY", shares |-> shrs,
     price |-> prc, total |-> total, pnl |-> Zero, timestamp |-> clock]

\* The row INSERT INTO transactions stores for a sell
SellTx(uid, sym, shrs, prc, proceeds, pnl) ==
    [user_id |-> uid, symbol |-> sym, type |-> "SELL", shares |-> shrs,
     price |-> prc, total |-> proceeds, pnl |-> pnl, timestamp |-> clock]

\* Mutant: the INSERT stores the total where the price belongs
BuyPortfolioTotal(pf, uid, sym, shrs, prc, total, existing) ==
    LET key == <<uid, sym>>
    IN  IF existing # None
        THEN IF key \in DOMAIN pf
             THEN [pf EXCEPT ![key] = BuyAverage(existing, shrs, total)]
             ELSE pf
        ELSE [k \in DOMAIN pf \cup {key} |->
                 IF k = key THEN [shares |-> shrs, avg_price |-> total]
                 ELSE pf[k]]

\* The portfolio statement of buy, on the table as the connection sees it:
\* UPDATE when the earlier SELECT found a row, INSERT otherwise.
BuyPortfolio(pf, uid, sym, shrs, prc, total, existing) ==
    LET key == <<uid, sym>>
    IN  IF existing # None
        THEN IF key \in DOMAIN pf
             THEN [pf EXCEPT ![key] = BuyAverage(existing, shrs, total)]
             ELSE pf
        ELSE [k \in DOMAIN pf \cup {key} |->
                 IF k = key THEN [shares |-> shrs, avg_price |-> prc] ELSE pf[k]]

\* A write statement of buy fails a constraint: INSERT INTO portfolio hits
\* UNIQUE(user_id, symbol), or NaN, which is bound as NULL, is written to a
\* NOT NULL column of a row (the UPDATE checks the rows it matches)
BuyIntegrityError(pf, uid, sym, shrs, prc, total, existing) ==
    \/ existing = None /\ <<uid, sym>> \in DOMAIN pf
    \/ /\ existing # None
       /\ <<uid, sym>> \in DOMAIN pf
       /\ LET new == BuyAverage(existing, shrs, total)
          IN  new.shares = NaN \/ new.avg_price = NaN
    \/ shrs = NaN \/ prc = NaN \/ total = NaN

\* Mutant: the transaction row replaces the log instead of joining it
BuyWritesRewriteLog(L, uid, sym, shrs, prc, total, bal, existing) ==
    [balance      |-> UpdateBalance(L.balance, uid, Real(RSub(bal, total))),
     portfolio    |-> BuyPortfolio(L.portfolio, uid, sym, shrs, prc, total, existing),
     transactions |-> <<BuyTx(uid, sym, shrs, prc, total)>>]

\* The statements of buy between the first write and commit, none of which
\* fails a constraint: the numbers written to the NOT NULL columns are
\* stored as they are, the balance as the column holds it
BuyWrites(L, uid, sym, shrs, prc, total, bal, existing) ==
    [balance      |-> UpdateBalance(L.balance, uid, Real(RSub(bal, total))),
     portfolio    |-> BuyPortfolio(L.portfolio, uid, sym, shrs, prc, total, existing),
     transactions |-> Append(L.transactions, BuyTx(uid, sym, shrs, prc, total))]

\* Mutant: the DELETE branch is missing, a row with no shares left is stored
SellPortfolioKeepsRow(pf, uid, sym, shrs, pos) ==
    LET key == <<uid, sym>>
    IN  IF key \in DOMAIN pf
        THEN [pf EXCEPT ![key].shares = RSub(pos.shares, shrs)]
        ELSE pf

\* Mutant: the UPDATE has lost "AND symbol=?" and writes every row of the user
SellPortfolioAllRows(pf, uid, sym, shrs, pos) ==
    LET key == <<uid, sym>>
        new_shares == RSub(pos.shares, shrs)
    IN  IF RLeq(new_shares, Zero)
        THEN [k \in DOMAIN pf \ {key} |-> pf[k]]
        ELSE [k \in DOMAIN pf |->
                 IF k[1] = uid THEN [pf[k] EXCEPT !.shares = new_shares]
                 ELSE pf[k]]

\* The portfolio statement of sell: DELETE when new_shares <= 0, else
\* UPDATE portfolio SET shares=? (avg_price is not written)
SellPortfolio(pf, uid, sym, shrs, pos) ==
    LET key == <<uid, sym>>
        new_shares == RSub(pos.shares, shrs)
    IN  IF RLeq(new_shares, Zero)
        THEN [k \in DOMAIN pf \ {key} |-> pf[k]]
        ELSE IF key \in DOMAIN pf
             THEN [pf EXCEPT ![key].shares = new_shares]
             ELSE pf

\* A write statement of sell fails a constraint: NaN, which is bound as
\* NULL, is written to a NOT NULL column of a row. (pnl may be NULL.)
SellIntegrityError(pf, uid, sym, shrs, prc, pos) ==
    \/ <<uid, sym>> \in DOMAIN pf /\ RSub(pos.shares, shrs) = NaN
    \/ shrs = NaN \/ prc = NaN \/ RMul(shrs, prc) = NaN

\* The statements of sell between the first write and commit, none of which
\* fails; get_balance runs on its own connection and reads the committed
\* balance.
SellWrites(L, uid, sym, shrs, prc, pos) ==
    LET proceeds == RMul(shrs, prc)
    IN  [balance      |-> UpdateBalance(L.balance, uid,
                              Real(RAdd(get_balance(L.balance, uid), proceeds))),
         portfolio    |-> SellPortfolio(L.portfolio, uid, sym, shrs, pos),
         transactions |-> Append(L.transactions,
                                 SellTx(uid, sym, shrs, prc, proceeds,
                                        Real(SellPnl(pos, shrs, prc))))]

\* Responses
Error(msg) == [status |-> "error", error |-> msg]
Raised(exc) == [status |-> "exception", error |-> exc]
BuyOk(new_bal, prc) == [status |-> "ok", balance |-> new_bal, price |-> prc]
SellOk(new_bal, pnl, prc) ==
    [status |-> "ok", balance |-> new_bal, pnl |-> pnl, price |-> prc]

(***************************************************************************)
(* Initial state: init_db() has created empty tables, _prices = {}         *)
(***************************************************************************)
NoEpoch == [n |-> 0, base |-> None]

\* The two threads _startup starts: one runs refresh_all_prices once, the
\* other runs price_loop
Refreshers == {"init", "loop"}

\* A refresh thread before its (next) call of refresh_all_prices; `last` is
\* how its previous call ended
AtStart(last) ==
    [pc |-> "start", results |-> EmptyDict, calls |-> <<>>, pending |-> {},
     pre |-> EmptyDict, last |-> last]

\* The reading thread outside get_price and get_all_prices
NotReading == [pc |-> "idle", op |-> "none", sym |-> <<>>, keys |-> {},
               result |-> None]

\* No adapter has been called yet; refresh_all_prices calls the API first
NoCall == [adapter |-> "none", response |-> <<>>, results |-> EmptyDict,
           next |-> "api"]

Init ==
    /\ prices = EmptyDict
    /\ user_balance = EmptyDict
    /\ portfolio = EmptyDict
    /\ transactions = <<>>
    /\ dbLocked = FALSE
    /\ session = {}
    /\ thr = [t \in Threads |-> Idle]
    /\ nreq = 0
    /\ epoch = NoEpoch
    /\ asked = None
    /\ lock = "free"
    /\ refr = [r \in Refreshers |-> AtStart("none")]
    /\ rd = NotReading
    /\ merged = EmptyDict
    /\ limit_orders = <<>>
    /\ clock = 0
    /\ view = None
    /\ feed = NoCall
    /\ watchlist = {}

\* A thread that has not started, or has sent its response, is free
Free(t) == thr[t].pc \in {"idle", "done"}

\* No request is being handled
Quiet == \A t \in Threads : Free(t)

\* No buy or sell is being handled
NoTrade ==
    \A t \in Threads :
        IF Free(t) THEN TRUE ELSE thr[t].req.kind \notin {"buy", "sell"}

\* Fewer trades have been received than a setting takes
FewTrades == nreq < MaxSideTrades

\* The pool hands a request to its first free thread
FirstFree(t) == Free(t) /\ \A u \in Threads : u < t => ~Free(u)

Done(req, resp) == [pc |-> "done", req |-> req, resp |-> resp]

Request(kind, uid, sym, shrs, prc) ==
    [kind |-> kind, uid |-> uid, sym |-> sym, shrs |-> shrs, prc |-> prc]

\* History only: the ledger in which a group of overlapping requests
\* started, and how many requests the group has so far
EpochBegin ==
    epoch' = IF NoTrade
             THEN [n |-> 1, base |-> Ledger]
             ELSE [epoch EXCEPT !.n = @ + 1]

(***************************************************************************)
(* refresh_all_prices                                                      *)
(***************************************************************************)
\* if results: with _prices_lock: _prices.update(results)
RefreshWith(results) ==
    /\ prices' = IF DOMAIN results # {}
                 THEN DictUpdate(prices, results)
                 ELSE prices
    /\ UNCHANGED <<user_balance, portfolio, transactions, dbLocked,
                   session, thr, nreq, epoch, asked, cacheVars, deskVars>>

\* The primary adapter's results, the fallback adapter's if those are
\* empty, merged
RefreshAllPrices ==
    \E primary \in FetchResults, fallback \in FetchResults :
        RefreshWith(IF DOMAIN primary # {} THEN primary ELSE fallback)

(***************************************************************************)
(* register, login, logout                                                 *)
(***************************************************************************)
\* The row ensure_balance_row inserts for an account that has none
ensure_balance_row(balances, uid) ==
    IF uid \in DOMAIN balances
    THEN balances
    ELSE [u \in DOMAIN balances \cup {uid} |->
             IF u = uid THEN R(INITIAL_BALANCE) ELSE balances[u]]

\* The accounts exist from the start (Users); a request that is not made
\* for one of them carries this uid
Nobody == 0

\* register with a username that is taken (lines 322-334): INSERT INTO users
\* raises IntegrityError, the handler answers 400 and returns without closing
\* its connection, which stays inside the failed INSERT's transaction and
\* holds the write lock until the runtime collects it. With the lock held
\* elsewhere the INSERT waits out the busy timeout and raises
\* OperationalError, which register does not catch.
RegisterTaken(t) ==
    /\ UNCHANGED <<asked, cacheVars, deskVars>>
    /\ FirstFree(t)
    /\ LET req == Request("register", Nobody, <<>>, Zero, Zero)
       IN  IF dbLocked
           THEN /\ thr' = [thr EXCEPT ![t] = Done(req, Raised("OperationalError"))]
                /\ UNCHANGED dbLocked
           ELSE /\ thr' = [thr EXCEPT ![t] =
                              Done(req, Error("Username already taken"))]
                /\ dbLocked' = TRUE
    /\ UNCHANGED <<prices, user_balance, portfolio, transactions, session,
                   nreq, epoch>>

\* login, lines 339-345 and the SELECT of ensure_balance_row (line 292): the
\* user is found, and the balance row is looked for; if it is there the
\* session is set (347-351)
LoginSelect(t, uid) ==
    /\ UNCHANGED <<asked, cacheVars, deskVars>>
    /\ FirstFree(t)
    /\ LET req == Request("login", uid, <<>>, Zero, Zero)
       IN  IF uid \in DOMAIN user_balance
           THEN /\ thr' = [thr EXCEPT ![t] = Done(req, [status |-> "ok"])]
                /\ session' = session \cup {uid}
           ELSE /\ thr' = [thr EXCEPT ![t] = [pc |-> "ensure_insert", req |-> req]]
                /\ UNCHANGED session
    /\ UNCHANGED <<prices, user_balance, portfolio, transactions, dbLocked,
                   nreq, epoch>>

\* Lines 293-296 and 347-351: INSERT INTO user_balance and commit, then the
\* session is set. user_id is the PRIMARY KEY: if the row has appeared since
\* the SELECT the INSERT raises IntegrityError, which login does not catch;
\* the connection is left open inside its transaction. With the write lock
\* held elsewhere for longer than the busy timeout the INSERT raises
\* OperationalError.
EnsureInsert(t) ==
    /\ UNCHANGED <<asked, cacheVars, deskVars>>
    /\ thr[t].pc = "ensure_insert"
    /\ LET r == thr[t].req
       IN  IF dbLocked
           THEN /\ thr' = [thr EXCEPT ![t] = Done(r, Raised("OperationalError"))]
                /\ UNCHANGED <<user_balance, session, dbLocked>>
           ELSE IF r.uid \in DOMAIN user_balance
           THEN /\ thr' = [thr EXCEPT ![t] = Done(r, Raised("IntegrityError"))]
                /\ dbLocked' = TRUE
                /\ UNCHANGED <<user_balance, session>>
           ELSE /\ user_balance' = ensure_balance_row(user_balance, r.uid)
                /\ session' = session \cup {r.uid}
                /\ dbLocked' = FALSE
                /\ thr' = [thr EXCEPT ![t] = Done(r, [status |-> "ok"])]
    /\ UNCHANGED <<prices, portfolio, transactions, nreq, epoch>>

\* logout: session.clear()
Logout(uid) ==
    /\ uid \in session
    /\ session' = session \ {uid}
    /\ UNCHANGED <<prices, user_balance, portfolio, transactions, dbLocked,
                   thr, nreq, epoch, asked, cacheVars, deskVars>>

(***************************************************************************)
(* buy                                                                     *)
(***************************************************************************)
\* Lines 401-404 of buy, the price found: prc <= 0 is refused, else total is
\* computed and the balance is read next
BuyPriced(req, prc) ==
    IF RLeq(prc, Zero)
    THEN Done([req EXCEPT !.prc = prc], Error("Price not available"))
    ELSE [pc |-> "buy_balance", req |-> [req EXCEPT !.prc = prc],
          total |-> RMul(req.shrs, prc)]

\* Mutant: a buy that finds no cached quote fetches one and stores it
BuyBeginFetches(t, uid, symIn, shrs, clientPrice) ==
    /\ UNCHANGED <<cacheVars, deskVars>>
    /\ FirstFree(t)
    /\ uid \in session
    /\ nreq < MaxRequests
    /\ nreq' = nreq + 1
    /\ EpochBegin
    /\ LET sym  == Upper(symIn)
           req  == Request("buy", uid, sym, shrs, Zero)
           live == get_price(prices, sym)
       IN  /\ thr' = [thr EXCEPT ![t] =
                 IF InvalidParameters(sym, shrs)
                 THEN Done(req, Error("Invalid parameters"))
                 ELSE IF live # None
                 THEN BuyPriced(req, LivePrice(live, clientPrice))
                 ELSE [pc |-> "buy_lookup", req |-> req, client |-> clientPrice]]
           /\ prices' = IF live = None /\ sym # <<>>
                        THEN DictUpdate(prices, [k \in {sym} |-> Quote(sym, R(600))])
                        ELSE prices
    /\ UNCHANGED <<user_balance, portfolio, transactions, dbLocked, session>>

\* Lines 390-398: the parameters, and get_price(sym), which takes and
\* releases _prices_lock. A quote found settles the price (lines 400-404);
\* without one get_price is called again
BuyBegin(t, uid, symIn, shrs, clientPrice) ==
    /\ UNCHANGED <<cacheVars, deskVars>>
    /\ FirstFree(t)
    /\ uid \in session
    /\ nreq < MaxRequests
    /\ nreq' = nreq + 1
    /\ EpochBegin
    /\ LET sym  == Upper(symIn)
           req  == Request("buy", uid, sym, shrs, Zero)
           live == get_price(prices, sym)
       IN  thr' = [thr EXCEPT ![t] =
              IF InvalidParameters(sym, shrs)
              THEN Done(req, Error("Invalid parameters"))
              ELSE IF live # None
              THEN BuyPriced(req, LivePrice(live, clientPrice))
              ELSE [pc |-> "buy_lookup", req |-> req, client |-> clientPrice]]
    /\ UNCHANGED <<prices, user_balance, portfolio, transactions, dbLocked,
                   session>>

\* Lines 398-404: get_price(sym.replace('.', '-')) on the cache as it is now,
\* and the price: the quote's, or the caller's without a quote
BuyLookup(t) ==
    /\ UNCHANGED <<cacheVars, deskVars>>
    /\ thr[t].pc = "buy_lookup"
    /\ LET r == thr[t].req
           live == get_price(prices, DotToDash(r.sym))
       IN  thr' = [thr EXCEPT ![t] = BuyPriced(r, LivePrice(live, thr[t].client))]
    /\ UNCHANGED <<prices, user_balance, portfolio, transactions, dbLocked,
                   session, nreq, epoch>>

\* Lines 405-410: get_balance(uid), on a connection of its own, and the
\* funds check, which raises TypeError for a balance of None. The handler's
\* connection has run no statement yet and holds no lock.
BuyBalance(t) ==
    /\ UNCHANGED <<asked, cacheVars, deskVars>>
    /\ thr[t].pc = "buy_balance"
    /\ LET r == thr[t].req
           bal == get_balance(user_balance, r.uid)
       IN  thr' = [thr EXCEPT ![t] =
              IF bal = Null
              THEN Done(r, Raised("TypeError"))
              ELSE IF InsufficientFunds(bal, thr[t].total)
              THEN Done(r, Error("Insufficient funds"))
              ELSE [pc |-> "buy_select", req |-> r, total |-> thr[t].total,
                    bal |-> bal]]
    /\ UNCHANGED <<prices, user_balance, portfolio, transactions, dbLocked,
                   session, nreq, epoch>>

\* Lines 412-414: SELECT the existing position (autocommit read)
BuySelect(t) ==
    /\ UNCHANGED <<asked, cacheVars, deskVars>>
    /\ thr[t].pc = "buy_select"
    /\ LET r == thr[t].req
       IN  thr' = [thr EXCEPT ![t] =
              [pc |-> "buy_write", req |-> r, total |-> thr[t].total,
               bal |-> thr[t].bal,
               existing |-> SelectPosition(portfolio, r.uid, r.sym)]]
    /\ UNCHANGED <<prices, user_balance, portfolio, transactions, dbLocked,
                   session, nreq, epoch>>

\* Lines 416-437: the write statements and commit. SQLite holds the database
\* write lock from the first write statement to commit: no other connection
\* writes in between and every other connection reads the committed tables,
\* so the transaction is one step. An IntegrityError leaves the handler
\* before commit and close: nothing is committed, and the connection keeps
\* the write lock until the runtime collects it.
BuyCommit(t) ==
    /\ UNCHANGED <<asked, cacheVars, deskVars>>
    /\ thr[t].pc = "buy_write"
    /\ ~dbLocked
    /\ LET r == thr[t].req
           l == thr[t]
           w == BuyWrites(Ledger, r.uid, r.sym, r.shrs, r.prc, l.total, l.bal,
                          l.existing)
       IN  IF BuyIntegrityError(portfolio, r.uid, r.sym, r.shrs, r.prc,
                                l.total, l.existing)
           THEN /\ thr' = [thr EXCEPT ![t] = Done(r, Raised("IntegrityError"))]
                /\ dbLocked' = TRUE
                /\ UNCHANGED <<user_balance, portfolio, transactions>>
           ELSE /\ user_balance' = w.balance
                /\ portfolio' = w.portfolio
                /\ transactions' = w.transactions
                /\ dbLocked' = FALSE
                /\ thr' = [thr EXCEPT ![t] =
                               Done(r, BuyOk(RSub(l.bal, l.total), r.prc))]
    /\ UNCHANGED <<prices, session, nreq, epoch>>

\* Lines 416-427 with the write lock held elsewhere for longer than the
\* connection's busy timeout: the statement raises OperationalError
BuyLocked(t) ==
    /\ UNCHANGED <<asked, cacheVars, deskVars>>
    /\ thr[t].pc = "buy_write"
    /\ dbLocked
    /\ thr' = [thr EXCEPT ![t] = Done(thr[t].req, Raised("OperationalError"))]
    /\ UNCHANGED <<prices, user_balance, portfolio, transactions, dbLocked,
                   session, nreq, epoch>>

\* The runtime collects a connection that a handler abandoned inside a
\* failed INSERT: it is closed, its transaction rolled back and the write
\* lock released
CollectConnection ==
    /\ UNCHANGED <<asked, cacheVars, deskVars>>
    /\ dbLocked
    /\ dbLocked' = FALSE
    /\ UNCHANGED <<prices, user_balance, portfolio, transactions, session,
                   thr, nreq, epoch>>

(***************************************************************************)
(* sell                                                                    *)
(***************************************************************************)
\* Lines 451-453 of sell, the price found: prc <= 0 is refused, else the
\* position is read next
SellPriced(req, prc) ==
    IF RLeq(prc, Zero)
    THEN Done([req EXCEPT !.prc = prc], Error("Price not available"))
    ELSE [pc |-> "sell_select", req |-> [req EXCEPT !.prc = prc]]

\* Lines 441-449: the parameters, and get_price(sym)
SellBegin(t, uid, symIn, shrs, clientPrice) ==
    /\ UNCHANGED <<cacheVars, deskVars>>
    /\ FirstFree(t)
    /\ uid \in session
    /\ nreq < MaxRequests
    /\ nreq' = nreq + 1
    /\ EpochBegin
    /\ LET sym  == Upper(symIn)
           req  == Request("sell", uid, sym, shrs, Zero)
           live == get_price(prices, sym)
       IN  thr' = [thr EXCEPT ![t] =
              IF InvalidParameters(sym, shrs)
              THEN Done(req, Error("Invalid parameters"))
              ELSE IF live # None
              THEN SellPriced(req, LivePrice(live, clientPrice))
              ELSE [pc |-> "sell_lookup", req |-> req, client |-> clientPrice]]
    /\ UNCHANGED <<prices, user_balance, portfolio, transactions, dbLocked,
                   session>>

\* Lines 449-453: get_price(sym.replace('.', '-')) on the cache as it is now,
\* and the price
SellLookup(t) ==
    /\ UNCHANGED <<cacheVars, deskVars>>
    /\ thr[t].pc = "sell_lookup"
    /\ LET r == thr[t].req
           live == get_price(prices, DotToDash(r.sym))
       IN  thr' = [thr EXCEPT ![t] = SellPriced(r, LivePrice(live, thr[t].client))]
    /\ UNCHANGED <<prices, user_balance, portfolio, transactions, dbLocked,
                   session, nreq, epoch>>

\* Lines 455-462: SELECT the position (autocommit read), shares check
SellSelect(t) ==
    /\ UNCHANGED <<asked, cacheVars, deskVars>>
    /\ thr[t].pc = "sell_select"
    /\ LET r   == thr[t].req
           pos == SelectPosition(portfolio, r.uid, r.sym)
       IN  thr' = [thr EXCEPT ![t] =
              IF InsufficientShares(pos, r.shrs)
              THEN Done(r, Error("Not enough shares"))
              ELSE [pc |-> "sell_write", req |-> r, pos |-> pos]]
    /\ UNCHANGED <<prices, user_balance, portfolio, transactions, dbLocked,
                   session, nreq, epoch>>

\* Lines 464-485: the write statements, get_balance on its own connection
\* (it reads the committed balance while this connection holds the write
\* lock), and commit: one step, as in buy. A statement that fails a
\* constraint raises IntegrityError, and bal + proceeds raises TypeError for
\* a balance of None: either leaves the handler before commit and close,
\* with nothing committed and the write lock held.
SellCommit(t) ==
    /\ UNCHANGED <<asked, cacheVars, deskVars>>
    /\ thr[t].pc = "sell_write"
    /\ ~dbLocked
    /\ LET r == thr[t].req
           pos == thr[t].pos
           bal == get_balance(user_balance, r.uid)
           w == SellWrites(Ledger, r.uid, r.sym, r.shrs, r.prc, pos)
       IN  IF SellIntegrityError(portfolio, r.uid, r.sym, r.shrs, r.prc, pos)
           THEN /\ thr' = [thr EXCEPT ![t] = Done(r, Raised("IntegrityError"))]
                /\ dbLocked' = TRUE
                /\ UNCHANGED <<user_balance, portfolio, transactions>>
           ELSE IF bal = Null
           THEN /\ thr' = [thr EXCEPT ![t] = Done(r, Raised("TypeError"))]
                /\ dbLocked' = TRUE
                /\ UNCHANGED <<user_balance, portfolio, transactions>>
           ELSE /\ user_balance' = w.balance
                /\ portfolio' = w.portfolio
                /\ transactions' = w.transactions
                /\ dbLocked' = FALSE
                /\ thr' = [thr EXCEPT ![t] =
                       Done(r, SellOk(RAdd(bal, RMul(r.shrs, r.prc)),
                                      SellPnl(pos, r.shrs, r.prc), r.prc))]
    /\ UNCHANGED <<prices, session, nreq, epoch>>

\* Lines 468-474 with the write lock held elsewhere for longer than the
\* connection's busy timeout: the statement raises OperationalError
SellLocked(t) ==
    /\ UNCHANGED <<asked, cacheVars, deskVars>>
    /\ thr[t].pc = "sell_write"
    /\ dbLocked
    /\ thr' = [thr EXCEPT ![t] = Done(thr[t].req, Raised("OperationalError"))]
    /\ UNCHANGED <<prices, user_balance, portfolio, transactions, dbLocked,
                   session, nreq, epoch>>

(***************************************************************************)
(* The price cache threads: refresh_all_prices step by step, run once by   *)
(* the thread _startup starts first and in a loop by price_loop, and a     *)
(* request thread calling get_price and get_all_prices                     *)
(***************************************************************************)
\* What an adapter call may return: {} (no data, or a failure it caught), a
\* snapshot of two symbols, a snapshot of one of them at another price
AdapterResults ==
    {EmptyDict,
     [k \in {API, CIT} |->
         IF k = API THEN Quote(API, R(600)) ELSE Quote(CIT, R(300))],
     [k \in {API} |-> Quote(API, R(610))]}

ledgerVars == <<user_balance, portfolio, transactions, dbLocked, session,
                thr, nreq, epoch, asked, deskVars>>

\* Mutant: the fallback adapter is called whatever the primary returned
NeedsFallbackAlways(results) == TRUE

\* if not results: (line 190)
NeedsFallback(results) == DOMAIN results = {}

\* if results: (line 194)
HasData(results) == DOMAIN results # {}

\* Mutant: the critical sections are entered without the lock
AcquirableAlways(holder) == TRUE

\* with _prices_lock: blocks until no thread holds the lock
Acquirable(holder) == holder = "free"

\* Mutant: an entry the cache already holds is kept (setdefault)
MergeOneKeepOld(cache, results, k) ==
    [x \in DOMAIN cache \cup {k} |->
        IF x \in DOMAIN cache THEN cache[x] ELSE results[k]]

\* _prices.update(results), the assignment of one key
MergeOne(cache, results, k) ==
    [x \in DOMAIN cache \cup {k} |-> IF x = k THEN results[k] ELSE cache[x]]

\* Where an exception raised inside refresh_all_prices can take the thread.
\* price_loop catches it (line 206) and prints a line (line 207): when the
\* print returns the loop goes on to sleep; when the print raises as well
\* (standard output has failed since init_db printed to it: a pipe whose
\* reader is gone, a terminal that hung up, a full disk) nothing catches
\* that and the thread ends. The thread that runs refresh_all_prices alone
\* ends.
OnException(r) == IF r = "loop" THEN {"end", "dead"} ELSE {"dead"}

\* results = fetch_nepse_api()
FetchPrimary(r) ==
    /\ refr[r].pc = "start"
    /\ \E s \in AdapterResults :
          refr' = [refr EXCEPT ![r] =
                     [@ EXCEPT !.results = s, !.calls = <<s>>,
                               !.pc = IF NeedsFallback(s) THEN "fallback"
                                      ELSE "merge"]]
    /\ UNCHANGED <<prices, lock, rd, merged, ledgerVars>>

\* results = fetch_merolagani(), then if results: ... else: (no merge, the
\* print of line 199 is next)
FetchFallback(r) ==
    /\ refr[r].pc = "fallback"
    /\ \E s \in AdapterResults :
          refr' = [refr EXCEPT ![r] =
                     IF HasData(s)
                     THEN [@ EXCEPT !.results = s, !.calls = Append(@, s),
                                    !.pc = "merge"]
                     ELSE [@ EXCEPT !.results = s, !.calls = Append(@, s),
                                    !.pc = "report", !.last = "empty"]]
    /\ UNCHANGED <<prices, lock, rd, merged, ledgerVars>>

\* with _prices_lock: (entry)
MergeAcquire(r) ==
    /\ refr[r].pc = "merge"
    /\ Acquirable(lock)
    /\ lock' = r
    /\ refr' = [refr EXCEPT ![r] =
                   [@ EXCEPT !.pc = "merging",
                             !.pending = DOMAIN refr[r].results,
                             !.pre = prices]]
    /\ UNCHANGED <<prices, rd, merged, ledgerVars>>

\* _prices.update(results): one key of results is assigned
MergeKey(r) ==
    /\ refr[r].pc = "merging"
    /\ \E k \in refr[r].pending :
          /\ prices' = MergeOne(prices, refr[r].results, k)
          /\ refr' = [refr EXCEPT ![r].pending = @ \ {k}]
    /\ UNCHANGED <<lock, rd, merged, ledgerVars>>

\* with _prices_lock: (exit); the print of line 197 is next
MergeRelease(r) ==
    /\ refr[r].pc = "merging"
    /\ refr[r].pending = {}
    /\ lock' = "free"
    /\ merged' = prices
    /\ refr' = [refr EXCEPT ![r] = [@ EXCEPT !.pc = "report", !.last = "merged"]]
    /\ UNCHANGED <<prices, rd, ledgerVars>>

\* The print that ends the call (line 197 after a merge, line 199 after a
\* fallback without data) returns, and refresh_all_prices returns: the
\* thread that ran it alone is over, price_loop goes on to sleep
RefreshReport(r) ==
    /\ refr[r].pc = "report"
    /\ refr' = [refr EXCEPT ![r].pc = "end"]
    /\ UNCHANGED <<prices, lock, rd, merged, ledgerVars>>

\* A statement of refresh_all_prices outside the adapters' try blocks and
\* outside the merge raises: a print before an adapter call (lines 184 and
\* 191), or the print that ends the call, after the merge (line 197) or
\* after a fallback without data (line 199). A thread that has returned
\* from refresh_all_prices raises nothing.
RefreshRaise(r) ==
    /\ refr[r].pc \in {"start", "fallback", "report"}
    /\ \E pc \in OnException(r) :
          refr' = [refr EXCEPT ![r] = [AtStart("raised") EXCEPT !.pc = pc]]
    /\ UNCHANGED <<prices, lock, rd, merged, ledgerVars>>

\* price_loop: time.sleep(300), then the next iteration
LoopSleep ==
    /\ refr["loop"].pc = "end"
    /\ refr' = [refr EXCEPT !["loop"] = AtStart(@.last)]
    /\ UNCHANGED <<prices, lock, rd, merged, ledgerVars>>

\* get_price(symbol) / get_all_prices(): with _prices_lock: (entry)
ReadAcquire(op, sym) ==
    /\ rd.pc \in {"idle", "done"}
    /\ Acquirable(lock)
    /\ lock' = "reader"
    /\ rd' = IF op = "get"
             THEN [pc |-> "reading", op |-> op, sym |-> sym, keys |-> {},
                   result |-> None]
             ELSE [pc |-> IF DOMAIN prices = {} THEN "unlock" ELSE "reading",
                   op |-> op, sym |-> <<>>, keys |-> DOMAIN prices,
                   result |-> {}]
    /\ UNCHANGED <<prices, refr, merged, ledgerVars>>

\* return _prices.get(symbol)
ReadGet ==
    /\ rd.pc = "reading"
    /\ rd.op = "get"
    /\ rd' = [rd EXCEPT !.result = get_price(prices, rd.sym), !.pc = "unlock"]
    /\ UNCHANGED <<prices, lock, refr, merged, ledgerVars>>

\* list(_prices.values()): the next value is taken
ReadValue ==
    /\ rd.pc = "reading"
    /\ rd.op = "getAll"
    /\ \E k \in rd.keys :
          rd' = [rd EXCEPT !.result = @ \cup {prices[k]},
                           !.keys = @ \ {k},
                           !.pc = IF rd.keys = {k} THEN "unlock" ELSE "reading"]
    /\ UNCHANGED <<prices, lock, refr, merged, ledgerVars>>

\* with _prices_lock: (exit), the value is returned
ReadRelease ==
    /\ rd.pc = "unlock"
    /\ lock' = "free"
    /\ rd' = [rd EXCEPT !.pc = "done"]
    /\ UNCHANGED <<prices, refr, merged, ledgerVars>>

\* The statements of refresh_all_prices, each returning
RefreshProgress(r) ==
    \/ FetchPrimary(r)
    \/ FetchFallback(r)
    \/ MergeAcquire(r)
    \/ MergeKey(r)
    \/ MergeRelease(r)
    \/ RefreshReport(r)

RefreshStep(r) == RefreshProgress(r) \/ RefreshRaise(r)

ReadStep == ReadGet \/ ReadValue \/ ReadRelease

NextCache ==
    \/ \E r \in Refreshers : RefreshStep(r)
    \/ LoopSleep
    \/ \E op \in {"get", "getAll"}, sym \in {API, CIT} : ReadAcquire(op, sym)
    \/ ReadStep

\* The threads of _startup and a reading request thread, from process start
SpecCache == Init /\ [][NextCache]_vars

\* Every thread whose next statement can return is scheduled until the
\* statement has returned or raised (the adapters' requests have a timeout
\* of 15 s), and a thread waiting for _prices_lock gets it when it is free
\* again and again. No fairness is asked of RefreshRaise: nothing makes a
\* print raise, and nothing keeps it from raising.
SpecCacheLive ==
    /\ SpecCache
    /\ \A r \in Refreshers :
          WF_vars(RefreshProgress(r)) /\ SF_vars(MergeAcquire(r))
    /\ WF_vars(LoopSleep)
    /\ WF_vars(ReadStep)

(***************************************************************************)
(* me (the account snapshot) and the limit-order routes                    *)
(***************************************************************************)
\* LIMIT 500 of the transactions query of me
TX_LIMIT == 500

\* The seconds the clock is followed for
MaxClock == 1

\* The limit orders the table is followed for
MaxOrders == 1

\* A table's rows with their AUTOINCREMENT ids, in id order (SELECT *)
Rows(table) == [i \in 1..Len(table) |-> [id |-> i, row |-> table[i]]]

\* One row joins a list that is ordered by timestamp, newest first: it goes
\* behind every row whose timestamp is not older than its own
RECURSIVE InsertByTimestamp(_, _)
InsertByTimestamp(sorted, x) ==
    IF sorted = <<>> THEN <<x>>
    ELSE IF Head(sorted).row.timestamp >= x.row.timestamp
    THEN <<Head(sorted)>> \o InsertByTimestamp(Tail(sorted), x)
    ELSE <<x>> \o sorted

\* ORDER BY timestamp DESC over rows met in id order. The statement gives no
\* second sort key; SQLite's sorter returns rows of equal timestamp in the
\* order the scan met them, which is id order.
RECURSIVE OrderByTimestampDesc(_)
OrderByTimestampDesc(rows) ==
    IF rows = <<>> THEN <<>>
    ELSE InsertByTimestamp(OrderByTimestampDesc(SubSeq(rows, 1, Len(rows) - 1)),
                           rows[Len(rows)])

\* LIMIT n
Limit(rows, n) == SubSeq(rows, 1, IF Len(rows) < n THEN Len(rows) ELSE n)

\* SELECT * FROM transactions WHERE user_id=? ORDER BY timestamp DESC
\* LIMIT 500
SnapshotTransactions(log, uid) ==
    Limit(OrderByTimestampDesc(SelectSeq(Rows(log), LAMBDA x : x.row.user_id = uid)),
          TX_LIMIT)

\* SELECT * FROM limit_orders WHERE user_id=? AND status='active'
ActiveOrders(orders, uid) ==
    SelectSeq(Rows(orders),
              LAMBDA x : x.row.user_id = uid /\ x.row.status = "active")

\* SELECT symbol, shares, avg_price FROM portfolio WHERE user_id=?
SelectPortfolio(pf, uid) ==
    [k \in {x \in DOMAIN pf : x[1] = uid} |-> pf[k]]

\* The row lo_add inserts; status takes its default, 'active'
LimitOrder(uid, symIn, type, target, shrs) ==
    [user_id |-> uid, symbol |-> Upper(symIn), order_type |-> type,
     target_price |-> Real(target), shares |-> Real(shrs), status |-> "active"]

\* The request body of lo_add <<symbol, type, targetPrice, shares>>
OrderInputs == {<<API, "BUY", R(500), R(10)>>}

\* Mutant: the UPDATE has lost "AND user_id=?"
CancelOrderAnyOwner(orders, id, uid) ==
    [i \in DOMAIN orders |->
        IF i = id THEN [orders[i] EXCEPT !.status = "cancelled"] ELSE orders[i]]

\* UPDATE limit_orders SET status='cancelled' WHERE id=? AND user_id=?
CancelOrder(orders, id, uid) ==
    [i \in DOMAIN orders |->
        IF i = id /\ orders[i].user_id = uid
        THEN [orders[i] EXCEPT !.status = "cancelled"]
        ELSE orders[i]]

\* What lo_cancel and the clock leave alone
tradeVars == <<prices, user_balance, portfolio, transactions, dbLocked,
               session, thr, nreq, epoch, asked, cacheVars, feed, watchlist>>

\* What the limit-order and watchlist routes leave alone, their own table,
\* the write lock and the response apart
routeVars == <<prices, user_balance, portfolio, transactions, session, thr,
               nreq, epoch, asked, cacheVars, feed, clock>>

\* What the steps of me leave alone, thr and view apart
storeVars == <<prices, user_balance, portfolio, transactions, dbLocked,
               session, nreq, epoch, asked, cacheVars, limit_orders, clock,
               feed, watchlist>>

\* A second passes: CURRENT_TIMESTAMP has a resolution of one second
Tick ==
    /\ clock < MaxClock
    /\ clock' = clock + 1
    /\ UNCHANGED <<tradeVars, limit_orders, view>>

\* No thread is inside me
NoSnapshot ==
    \A t \in Threads : IF Free(t) THEN TRUE ELSE thr[t].req.kind # "me"

\* me, lines 362-364: bal = get_balance(uid), on a connection of its own
MeBegin(t, uid) ==
    /\ FirstFree(t)
    /\ uid \in session
    /\ thr' = [thr EXCEPT ![t] =
                  [pc |-> "me_portfolio",
                   req |-> Request("me", uid, <<>>, Zero, Zero),
                   balance |-> get_balance(user_balance, uid)]]
    /\ UNCHANGED <<storeVars, view>>

\* Lines 365-367: the SELECT of the positions (autocommit read)
MePortfolio(t) ==
    /\ thr[t].pc = "me_portfolio"
    /\ thr' = [thr EXCEPT ![t] =
                  [pc |-> "me_transactions", req |-> thr[t].req,
                   balance |-> thr[t].balance,
                   portfolio |-> SelectPortfolio(portfolio, thr[t].req.uid)]]
    /\ UNCHANGED <<storeVars, view>>

\* Lines 368-370: the SELECT of the transactions (autocommit read)
MeTransactions(t) ==
    /\ thr[t].pc = "me_transactions"
    /\ thr' = [thr EXCEPT ![t] =
                  [pc |-> "me_watchlist", req |-> thr[t].req,
                   balance |-> thr[t].balance,
                   portfolio |-> thr[t].portfolio,
                   transactions |->
                       SnapshotTransactions(transactions, thr[t].req.uid)]]
    /\ UNCHANGED <<storeVars, view>>

\* The characters of stored symbols, in the order of their code points
Alphabet ==
    <<"-", ".", "0", "1", "2", "3", "4", "5", "6", "7", "8", "9">> \o UpperCase

CodeRank(ch) == CHOOSE i \in 1..Len(Alphabet) : Alphabet[i] = ch

\* a sorts before b byte by byte (the BINARY collation of a TEXT column)
RECURSIVE SymbolBefore(_, _)
SymbolBefore(a, b) ==
    IF a = <<>> THEN b # <<>>
    ELSE IF b = <<>> THEN FALSE
    ELSE IF Head(a) = Head(b) THEN SymbolBefore(Tail(a), Tail(b))
    ELSE CodeRank(Head(a)) < CodeRank(Head(b))

\* The symbols of a set, first to last
RECURSIVE InSymbolOrder(_)
InSymbolOrder(syms) ==
    IF syms = {} THEN <<>>
    ELSE LET first == CHOOSE x \in syms :
                          \A y \in syms \ {x} : SymbolBefore(x, y)
         IN  <<first>> \o InSymbolOrder(syms \ {first})

\* SELECT symbol FROM watchlist WHERE user_id=?: the statement names no
\* order; SQLite answers it from the index of UNIQUE(user_id, symbol), which
\* gives the user's rows in symbol order
SelectWatchlist(wl, uid) ==
    InSymbolOrder({x[2] : x \in {y \in wl : y[1] = uid}})

\* Lines 371-373: the SELECT of the watchlist (autocommit read)
MeWatchlist(t) ==
    /\ thr[t].pc = "me_watchlist"
    /\ thr' = [thr EXCEPT ![t] =
                  [pc |-> "me_orders", req |-> thr[t].req,
                   balance |-> thr[t].balance,
                   portfolio |-> thr[t].portfolio,
                   transactions |-> thr[t].transactions,
                   watchlist |-> SelectWatchlist(watchlist, thr[t].req.uid)]]
    /\ UNCHANGED <<storeVars, view>>

\* Lines 374-386: the SELECT of the active limit orders, and the response,
\* put together from what the five reads returned
MeOrders(t) ==
    /\ thr[t].pc = "me_orders"
    /\ view' = [op |-> "me", uid |-> thr[t].req.uid,
                balance |-> thr[t].balance,
                portfolio |-> thr[t].portfolio,
                transactions |-> thr[t].transactions,
                watchlist |-> thr[t].watchlist,
                limitOrders |-> ActiveOrders(limit_orders, thr[t].req.uid)]
    /\ thr' = [thr EXCEPT ![t] = Done(thr[t].req, [status |-> "ok"])]
    /\ UNCHANGED storeVars

MeSteps(t) ==
    MePortfolio(t) \/ MeTransactions(t) \/ MeWatchlist(t) \/ MeOrders(t)

\* lo_add: INSERT INTO limit_orders, commit, ok. With the write lock held
\* elsewhere for longer than the busy timeout the INSERT raises
\* OperationalError. A target price or a number of shares of NaN is bound as
\* NULL to a NOT NULL column: the INSERT raises IntegrityError, and the
\* connection, which the handler leaves open, holds the write lock.
LoAdd(uid, symIn, type, target, shrs) ==
    /\ uid \in session
    /\ Len(limit_orders) < MaxOrders
    /\ IF dbLocked
       THEN /\ view' = [op |-> "lo_add", uid |-> uid, id |-> 0, ok |-> FALSE]
            /\ UNCHANGED <<limit_orders, dbLocked>>
       ELSE IF target = NaN \/ shrs = NaN
       THEN /\ view' = [op |-> "lo_add", uid |-> uid, id |-> 0, ok |-> FALSE]
            /\ dbLocked' = TRUE
            /\ UNCHANGED limit_orders
       ELSE /\ limit_orders' = Append(limit_orders,
                                      LimitOrder(uid, symIn, type, target, shrs))
            /\ view' = [op |-> "lo_add", uid |-> uid,
                        id |-> Len(limit_orders) + 1, ok |-> TRUE]
            /\ dbLocked' = FALSE
    /\ UNCHANGED <<routeVars, watchlist>>

\* lo_cancel: the UPDATE, commit, ok whatever the UPDATE matched;
\* OperationalError when the write lock is held elsewhere for longer than
\* the busy timeout. `found` is history: the row of that id as the request
\* found it.
LoCancel(uid, id) ==
    /\ uid \in session
    /\ limit_orders' = IF dbLocked THEN limit_orders
                       ELSE CancelOrder(limit_orders, id, uid)
    /\ view' = [op |-> "lo_cancel", uid |-> uid, id |-> id, ok |-> ~dbLocked,
                found |-> IF id \in DOMAIN limit_orders THEN limit_orders[id]
                          ELSE None]
    /\ UNCHANGED <<tradeVars, clock>>

\* wl_add (lines 488-500): INSERT INTO watchlist, commit, close, ok. A row
\* of that user and symbol is there already: the INSERT raises
\* IntegrityError, the handler answers 400 and returns without closing its
\* connection, which stays inside the failed INSERT's transaction and holds
\* the write lock until the runtime collects it. With the lock held
\* elsewhere the INSERT waits out the busy timeout and raises
\* OperationalError, which wl_add does not catch.
WlAdd(uid, symIn) ==
    /\ uid \in session
    /\ LET row == <<uid, Upper(symIn)>>
       IN  IF dbLocked
           THEN /\ view' = [op |-> "wl_add", uid |-> uid, ok |-> FALSE,
                            error |-> "OperationalError"]
                /\ UNCHANGED <<watchlist, dbLocked>>
           ELSE IF row \in watchlist
           THEN /\ view' = [op |-> "wl_add", uid |-> uid, ok |-> FALSE,
                            error |-> "Already watching"]
                /\ dbLocked' = TRUE
                /\ UNCHANGED watchlist
           ELSE /\ watchlist' = watchlist \cup {row}
                /\ view' = [op |-> "wl_add", uid |-> uid, ok |-> TRUE,
                            error |-> "none"]
                /\ dbLocked' = FALSE
    /\ UNCHANGED <<routeVars, limit_orders>>

\* wl_remove (lines 502-511): DELETE FROM watchlist WHERE user_id=? AND
\* symbol=?, commit, close, ok whatever the DELETE matched; OperationalError
\* when the write lock is held elsewhere for longer than the busy timeout
WlRemove(uid, symIn) ==
    /\ uid \in session
    /\ watchlist' = IF dbLocked THEN watchlist
                    ELSE watchlist \ {<<uid, Upper(symIn)>>}
    /\ view' = [op |-> "wl_remove", uid |-> uid, ok |-> ~dbLocked,
                error |-> IF dbLocked THEN "OperationalError" ELSE "none"]
    /\ UNCHANGED <<routeVars, limit_orders, dbLocked>>

(***************************************************************************)
(* The two adapters, record by record                                      *)
(***************************************************************************)
\* One record of a provider's response: an item of the API's JSON list or a
\* table row of the scraped page. `parses` is false when float() or int()
\* raises ValueError on one of its fields.
Item(sym, ltp, parses) == [sym |-> sym, ltp |-> ltp, parses |-> parses]

\* A quote of each of two symbols, a record without symbol, one priced 0,
\* one priced below half a paisa, one that does not parse
Items ==
    {Item(API, R(600), TRUE),
     Item(CIT, R(300), TRUE),
     Item(<<>>, R(600), TRUE),
     Item(API, Zero, TRUE),
     Item(CIT, RDiv(R(1), R(250)), TRUE),
     Item(API, Zero, FALSE)}

\* What a provider may serve: no record, one, or two
Responses ==
    {<<>>} \cup {<<a>> : a \in Items} \cup {<<a, b>> : a \in Items, b \in Items}

\* round(x, 2): the exact value of x to the nearest hundredth, a tie to the
\* even one, and the double nearest to that decimal: n / 100 for the whole
\* number n of hundredths, rounded once. An infinity, NaN, a zero and a whole
\* number stay as they are; what rounds to no hundredth is a zero of the
\* sign of x
Round2(x) ==
    IF x[2] = <<>> \/ x[3] >= 0 THEN x
    ELSE LET t == BigMulSmall(x[2], 100)
             cut == -x[3]
             floor == BigShr(t, cut)
             up == /\ BigBit(t, cut - 1) = 1
                   /\ \/ ~LowBitsZero(t, cut - 1)
                      \/ BigBit(floor, 0) = 1
             n == IF up THEN BigAdd(floor, <<1>>) ELSE floor
             len == BigBitLen(n)
             k == IF len < MantBits + 10 THEN MantBits + 10 - len ELSE 0
             d == BigDiv(BigShl(n, k), <<100>>)
         IN  Round(x[1], d.q, -k, ~d.exact)

\* results[sym] = {"symbol": sym, "price": round(ltp, 2), ...}
Store(results, item) ==
    DictUpdate(results,
               [k \in {item.sym} |-> Quote(item.sym, Round2(item.ltp))])

\* The loop of fetch_nepse_api over items that all parse:
\* if sym and ltp > 0: results[sym] = ...
RECURSIVE ApiLoop(_)
ApiLoop(items) ==
    IF items = <<>> THEN EmptyDict
    ELSE LET before == ApiLoop(SubSeq(items, 1, Len(items) - 1))
             item == items[Len(items)]
         IN  IF item.sym # <<>> /\ RLess(Zero, item.ltp)
             THEN Store(before, item)
             ELSE before

\* fetch_nepse_api on the items of a response: the loop has no try of its
\* own, so a ValueError in any item reaches except Exception (line 178),
\* which returns {}
fetch_nepse_api(items) ==
    IF \E i \in DOMAIN items : ~items[i].parses
    THEN EmptyDict
    ELSE ApiLoop(items)

\* fetch_merolagani on the rows of a page: a row that raises ValueError is
\* skipped (line 140); if ltp > 0: results[sym] = ...
RECURSIVE fetch_merolagani(_)
fetch_merolagani(rows) ==
    IF rows = <<>> THEN EmptyDict
    ELSE LET before == fetch_merolagani(SubSeq(rows, 1, Len(rows) - 1))
             row == rows[Len(rows)]
         IN  IF row.parses /\ RLess(Zero, row.ltp)
             THEN Store(before, row)
             ELSE before

\* The call of one adapter, as recorded
Call(adapter, response, results, next) ==
    [adapter |-> adapter, response |-> response, results |-> results,
     next |-> next]

\* with _prices_lock: _prices.update(results), if results
Merge(cache, results) ==
    IF HasData(results) THEN DictUpdate(cache, results) ELSE cache

\* refresh_all_prices up to the fallback: the API serves a response; its
\* result is merged if it holds data, else the scraper is called next
CallApi(response) ==
    /\ feed.next = "api"
    /\ LET results == fetch_nepse_api(response)
       IN  /\ feed' = Call("api", response, results,
                           IF NeedsFallback(results) THEN "web" ELSE "api")
           /\ prices' = Merge(prices, results)
    /\ UNCHANGED <<user_balance, portfolio, transactions, dbLocked, session,
                   thr, nreq, epoch, asked, cacheVars, limit_orders, clock,
                   view, watchlist>>

\* refresh_all_prices from the fallback on: the page is served and scraped;
\* the result is merged if it holds data
CallWeb(response) ==
    /\ feed.next = "web"
    /\ LET results == fetch_merolagani(response)
       IN  /\ feed' = Call("web", response, results, "api")
           /\ prices' = Merge(prices, results)
    /\ UNCHANGED <<user_balance, portfolio, transactions, dbLocked, session,
                   thr, nreq, epoch, asked, cacheVars, limit_orders, clock,
                   view, watchlist>>

(***************************************************************************)
(* Specifications                                                          *)
(***************************************************************************)
\* The steps of a buy after its first
BuySteps(t) ==
    \/ BuyLookup(t) /\ UNCHANGED asked
    \/ BuyBalance(t)
    \/ BuySelect(t)
    \/ BuyCommit(t)

\* The steps of a sell after its first
SellSteps(t) ==
    \/ SellLookup(t) /\ UNCHANGED asked
    \/ SellSelect(t)
    \/ SellCommit(t)

Next ==
    \/ RefreshAllPrices
    \/ \E t \in Threads, uid \in ConcurrentUsers :
            Quiet /\ uid \notin session /\ LoginSelect(t, uid)
    \/ \E t \in Threads : EnsureInsert(t)
    \/ \E t \in Threads, uid \in Users, d \in ConcurrentInputs :
            BuyBegin(t, uid, d[1], d[2], d[3]) /\ UNCHANGED asked
    \/ \E t \in Threads : BuySteps(t)
    \/ \E t \in Threads : BuyLocked(t)
    \/ CollectConnection
    \/ \E t \in Threads, uid \in Users, d \in ConcurrentInputs :
            SellBegin(t, uid, d[1], d[2], d[3]) /\ UNCHANGED asked
    \/ \E t \in Threads : SellSteps(t)
    \/ \E t \in Threads : SellLocked(t)

\* The request threads serve one account's trade requests concurrently,
\* after its login
Spec == Init /\ [][Next]_vars

\* One account's logins and trades, one at a time: a request is taken only
\* when no other is running, while quotes are refreshed. Alone, no INSERT of
\* login or buy meets a row it did not see, so these requests abandon no
\* connection and find the write lock free. (A request that does abandon
\* one, register under a taken name or wl_add of a symbol already watched,
\* is no part of this specification.)
NextSeq ==
    \/ RefreshAllPrices
    \/ \E t \in Threads, uid \in ConcurrentUsers :
            Quiet /\ uid \notin session /\ LoginSelect(t, uid)
    \/ \E t \in Threads : EnsureInsert(t)
    \/ \E t \in Threads, uid \in ConcurrentUsers, d \in TradeInputs :
            Quiet /\ BuyBegin(t, uid, d[1], d[2], d[3]) /\ UNCHANGED asked
    \/ \E t \in Threads : BuySteps(t)
    \/ \E t \in Threads, uid \in ConcurrentUsers, d \in TradeInputs :
            Quiet /\ SellBegin(t, uid, d[1], d[2], d[3]) /\ UNCHANGED asked
    \/ \E t \in Threads : SellSteps(t)

SpecSeq == Init /\ [][NextSeq]_vars

\* login_required looks at the session cookie alone: a request carrying a
\* cookie signed before the database file was created anew (the file lives
\* beside the code unless a /data volume exists) is served for a uid that
\* has no user_balance row
ResumeSession(uid) ==
    /\ uid \notin session
    /\ session' = session \cup {uid}
    /\ UNCHANGED <<prices, user_balance, portfolio, transactions, dbLocked,
                   thr, nreq, epoch, asked, cacheVars, deskVars>>

\* One account's requests, one at a time, its session of either origin
NextResume ==
    \/ RefreshAllPrices
    \/ \E t \in Threads, uid \in ConcurrentUsers :
            Quiet /\ uid \notin session /\ LoginSelect(t, uid)
    \/ \E t \in Threads : EnsureInsert(t)
    \/ \E uid \in ConcurrentUsers : Quiet /\ ResumeSession(uid)
    \/ \E t \in Threads, uid \in Users, d \in TradeInputs :
            FewTrades /\ Quiet /\ BuyBegin(t, uid, d[1], d[2], d[3]) /\ UNCHANGED asked
    \/ \E t \in Threads : BuySteps(t)
    \/ \E t \in Threads, uid \in Users, d \in TradeInputs :
            FewTrades /\ Quiet /\ SellBegin(t, uid, d[1], d[2], d[3]) /\ UNCHANGED asked
    \/ \E t \in Threads : SellSteps(t)

SpecResume == Init /\ [][NextResume]_vars

\* History only: the request body as the caller sent it, and what the
\* cache holds for the symbol at the first call of get_price
Record(kind, uid, symIn, shrs, clientPrice) ==
    asked' = [kind |-> kind, uid |-> uid, sym |-> symIn, shrs |-> shrs,
              client |-> clientPrice,
              first |-> get_price(prices, Upper(symIn)),
              second |-> None]

\* History only: what the cache holds for the symbol's dashed variant at
\* the second call of get_price
RecordSecond ==
    asked' = [asked EXCEPT
                 !.second = get_price(prices, DotToDash(Upper(asked.sym)))]

\* Caches holding a quote under the dotted symbol, under its dashed variant,
\* under both, under neither
PriceCaches ==
    {EmptyDict,
     [k \in {API} |-> Quote(API, R(600))],
     [k \in {A_DOT_P} |-> Quote(A_DOT_P, R(600))],
     [k \in {A_DASH_P} |-> Quote(A_DASH_P, R(610))],
     [k \in {A_DOT_P, A_DASH_P} |->
         IF k = A_DOT_P THEN Quote(A_DOT_P, R(600)) ELSE Quote(A_DASH_P, R(610))]}

ClientPrices == {R(0), R(500), R(625)}

PriceInputs ==
    {A_DOT_P, <<"a", ".", "p">>, API} \X {R(10)} \X ClientPrices

\* The state after some refreshes and before the first request
InitPrice ==
    /\ prices \in PriceCaches
    /\ user_balance = EmptyDict
    /\ portfolio = EmptyDict
    /\ transactions = <<>>
    /\ dbLocked = FALSE
    /\ session = {}
    /\ thr = [t \in Threads |-> Idle]
    /\ nreq = 0
    /\ epoch = NoEpoch
    /\ asked = None
    /\ lock = "free"
    /\ refr = [r \in Refreshers |-> AtStart("none")]
    /\ rd = NotReading
    /\ merged = EmptyDict
    /\ limit_orders = <<>>
    /\ clock = 0
    /\ view = None
    /\ feed = NoCall
    /\ watchlist = {}

\* One account's requests, one at a time, against a cache that holds dotted
\* and dashed keys and is refreshed while a request runs
NextPrice ==
    \/ \E results \in PriceCaches : RefreshWith(results)
    \/ \E t \in Threads, uid \in ConcurrentUsers :
            Quiet /\ uid \notin session /\ LoginSelect(t, uid)
    \/ \E t \in Threads : EnsureInsert(t)
    \/ \E t \in Threads, uid \in Users, d \in PriceInputs :
            /\ FewTrades
            /\ Quiet
            /\ BuyBegin(t, uid, d[1], d[2], d[3])
            /\ Record("buy", uid, d[1], d[2], d[3])
    \/ \E t \in Threads : BuyLookup(t) /\ RecordSecond
    \/ \E t \in Threads : BuyBalance(t)
    \/ \E t \in Threads : BuySelect(t)
    \/ \E t \in Threads : BuyCommit(t)
    \/ \E t \in Threads, uid \in Users, d \in PriceInputs :
            /\ FewTrades
            /\ Quiet
            /\ SellBegin(t, uid, d[1], d[2], d[3])
            /\ Record("sell", uid, d[1], d[2], d[3])
    \/ \E t \in Threads : SellLookup(t) /\ RecordSecond
    \/ \E t \in Threads : SellSelect(t)
    \/ \E t \in Threads : SellCommit(t)

SpecPrice == InitPrice /\ [][NextPrice]_vars

\* The bodies of the trades whose log the snapshot lists
SnapshotInputs == {<<API, R(10), R(500)>>, <<CIT, R(10), R(500)>>}

\* One account trades, one trade at a time, while seconds pass or do not,
\* and reads its snapshot, one snapshot at a time, while it trades
NextSnapshot ==
    \/ \E t \in Threads, uid \in ConcurrentUsers :
            Quiet /\ uid \notin session /\ LoginSelect(t, uid)
    \/ \E t \in Threads : EnsureInsert(t)
    \/ Tick
    \/ \E t \in Threads, uid \in Users, d \in SnapshotInputs :
            FewTrades /\ NoTrade /\ BuyBegin(t, uid, d[1], d[2], d[3]) /\ UNCHANGED asked
    \/ \E t \in Threads : BuySteps(t)
    \/ \E t \in Threads, uid \in Users, d \in SnapshotInputs :
            FewTrades /\ NoTrade /\ SellBegin(t, uid, d[1], d[2], d[3]) /\ UNCHANGED asked
    \/ \E t \in Threads : SellSteps(t)
    \/ \E t \in Threads, uid \in Users : NoSnapshot /\ MeBegin(t, uid)
    \/ \E t \in Threads : MeSteps(t)

SpecSnapshot == Init /\ [][NextSnapshot]_vars

\* Refresh after refresh, each adapter reading what its provider serves
NextAdapters ==
    \/ \E response \in Responses : CallApi(response)
    \/ \E response \in Responses : CallWeb(response)

SpecAdapters == Init /\ [][NextAdapters]_vars

\* The request threads serve one account's logins, logouts and trades
\* concurrently, and registrations under a name that is taken
NextOverlap ==
    \/ \E t \in Threads, uid \in ConcurrentUsers : LoginSelect(t, uid)
    \/ \E t \in Threads : EnsureInsert(t)
    \/ \E uid \in ConcurrentUsers : Logout(uid)
    \/ \E t \in Threads : RegisterTaken(t)
    \/ \E t \in Threads, uid \in Users, d \in SnapshotInputs :
            FewTrades /\ BuyBegin(t, uid, d[1], d[2], d[3]) /\ UNCHANGED asked
    \/ \E t \in Threads : BuySteps(t)
    \/ \E t \in Threads : BuyLocked(t)
    \/ CollectConnection
    \/ \E t \in Threads, uid \in Users, d \in SnapshotInputs :
            FewTrades /\ SellBegin(t, uid, d[1], d[2], d[3]) /\ UNCHANGED asked
    \/ \E t \in Threads : SellSteps(t)
    \/ \E t \in Threads : SellLocked(t)

SpecOverlap == Init /\ [][NextOverlap]_vars

\* The body of the trades sent between limit-order requests
DeskInputs == {<<API, R(10), R(500)>>}

\* The ids lo_cancel is called with: the rows the table can hold, and 0 for
\* an id no row has
OrderIds == 0..MaxOrders

\* The symbol the watchlist requests name
WatchInputs == {API}

\* Both accounts add and cancel limit orders, watch a symbol and read their
\* snapshot, one request at a time, while one of them trades and quotes are
\* refreshed. A symbol added twice leaves a connection behind that holds the
\* write lock until the runtime collects it.
NextOrders ==
    \/ RefreshAllPrices
    \/ \E t \in Threads, uid \in Users :
            Quiet /\ uid \notin session /\ LoginSelect(t, uid)
    \/ \E t \in Threads : EnsureInsert(t)
    \/ \E t \in Threads, uid \in ConcurrentUsers, d \in DeskInputs :
            FewTrades /\ Quiet /\ BuyBegin(t, uid, d[1], d[2], d[3]) /\ UNCHANGED asked
    \/ \E t \in Threads : BuySteps(t)
    \/ \E t \in Threads, uid \in ConcurrentUsers, d \in DeskInputs :
            FewTrades /\ Quiet /\ SellBegin(t, uid, d[1], d[2], d[3]) /\ UNCHANGED asked
    \/ \E t \in Threads : SellSteps(t)
    \/ \E uid \in Users, d \in OrderInputs :
            Quiet /\ LoAdd(uid, d[1], d[2], d[3], d[4])
    \/ \E uid \in Users, id \in OrderIds : Quiet /\ LoCancel(uid, id)
    \/ \E t \in Threads, uid \in Users : Quiet /\ MeBegin(t, uid)
    \/ \E t \in Threads : MeSteps(t)
    \/ \E uid \in Users, sym \in WatchInputs : Quiet /\ WlAdd(uid, sym)
    \/ \E uid \in Users, sym \in WatchInputs : Quiet /\ WlRemove(uid, sym)
    \/ CollectConnection
    \/ \E t \in Threads : BuyLocked(t)
    \/ \E t \in Threads : SellLocked(t)

SpecOrders == Init /\ [][NextOrders]_vars

\* Both accounts log in, trade and add and cancel limit orders, and one of
\* them logs out and adds a symbol to its watchlist, one request at a time. A
\* symbol added twice leaves a connection behind that holds the write lock
\* until the runtime collects it; the requests of either account that write
\* in the meantime fail.
NextIsolated ==
    \/ \E t \in Threads, uid \in Users :
            Quiet /\ uid \notin session /\ LoginSelect(t, uid)
    \/ \E t \in Threads : EnsureInsert(t)
    \/ \E uid \in ConcurrentUsers : Quiet /\ Logout(uid)
    \/ \E uid \in ConcurrentUsers, sym \in WatchInputs :
            Quiet /\ WlAdd(uid, sym)
    \/ CollectConnection
    \/ \E t \in Threads : BuyLocked(t)
    \/ \E t \in Threads : SellLocked(t)
    \/ \E t \in Threads, uid \in Users, d \in DeskInputs :
            FewTrades /\ Quiet /\ BuyBegin(t, uid, d[1], d[2], d[3]) /\ UNCHANGED asked
    \/ \E t \in Threads : BuySteps(t)
    \/ \E t \in Threads, uid \in Users, d \in DeskInputs :
            FewTrades /\ Quiet /\ SellBegin(t, uid, d[1], d[2], d[3]) /\ UNCHANGED asked
    \/ \E t \in Threads : SellSteps(t)
    \/ \E uid \in Users, d \in OrderInputs :
            Quiet /\ LoAdd(uid, d[1], d[2], d[3], d[4])
    \/ \E uid \in Users, id \in OrderIds : Quiet /\ LoCancel(uid, id)

SpecIsolated == Init /\ [][NextIsolated]_vars

(***************************************************************************)
(* One request run alone on a ledger L, with the price it resolved:        *)
(* the handler's statements in program order with nothing in between       *)
(***************************************************************************)
SerialBuy(L, r) ==
    LET total == RMul(r.shrs, r.prc)
        bal == get_balance(L.balance, r.uid)
        existing == SelectPosition(L.portfolio, r.uid, r.sym)
    IN  IF InvalidParameters(r.sym, r.shrs)
        THEN [ledger |-> L, resp |-> Error("Invalid parameters")]
        ELSE IF RLeq(r.prc, Zero)
        THEN [ledger |-> L, resp |-> Error("Price not available")]
        ELSE IF bal = Null
        THEN [ledger |-> L, resp |-> Raised("TypeError")]
        ELSE IF InsufficientFunds(bal, total)
        THEN [ledger |-> L, resp |-> Error("Insufficient funds")]
        ELSE IF BuyIntegrityError(L.portfolio, r.uid, r.sym, r.shrs, r.prc, total,
                                  existing)
        THEN [ledger |-> L, resp |-> Raised("IntegrityError")]
        ELSE [ledger |-> BuyWrites(L, r.uid, r.sym, r.shrs, r.prc, total, bal,
                                   existing),
              resp |-> BuyOk(RSub(bal, total), r.prc)]

SerialSell(L, r) ==
    LET pos == SelectPosition(L.portfolio, r.uid, r.sym)
    IN  IF InvalidParameters(r.sym, r.shrs)
        THEN [ledger |-> L, resp |-> Error("Invalid parameters")]
        ELSE IF RLeq(r.prc, Zero)
        THEN [ledger |-> L, resp |-> Error("Price not available")]
        ELSE IF InsufficientShares(pos, r.shrs)
        THEN [ledger |-> L, resp |-> Error("Not enough shares")]
        ELSE IF SellIntegrityError(L.portfolio, r.uid, r.sym, r.shrs, r.prc, pos)
        THEN [ledger |-> L, resp |-> Raised("IntegrityError")]
        ELSE IF get_balance(L.balance, r.uid) = Null
        THEN [ledger |-> L, resp |-> Raised("TypeError")]
        ELSE [ledger |-> SellWrites(L, r.uid, r.sym, r.shrs, r.prc, pos),
              resp |-> SellOk(RAdd(get_balance(L.balance, r.uid),
                                   RMul(r.shrs, r.prc)),
                              SellPnl(pos, r.shrs, r.prc), r.prc)]

SerialExec(L, r) == IF r.kind = "buy" THEN SerialBuy(L, r) ELSE SerialSell(L, r)

(***************************************************************************)
(* Quantities the properties speak of                                      *)
(***************************************************************************)
StoreSymbols == {API, CIT}

\* Sum of `total` over the account's transactions of one type
RECURSIVE SumTotals(_, _, _)
SumTotals(log, uid, type) ==
    IF log = <<>> THEN Zero
    ELSE LET x == Head(log)
         IN  RAdd(IF x.user_id = uid /\ x.type = type THEN x.total ELSE Zero,
                  SumTotals(Tail(log), uid, type))

\* Sum of `shares` over the account's transactions of one type and symbol
RECURSIVE SumShares(_, _, _, _)
SumShares(log, uid, sym, type) ==
    IF log = <<>> THEN Zero
    ELSE LET x == Head(log)
         IN  RAdd(IF x.user_id = uid /\ x.symbol = sym /\ x.type = type
                  THEN x.shares ELSE Zero,
                  SumShares(Tail(log), uid, sym, type))

\* Shares held in the position row, 0 if there is no row
Held(pf, uid, sym) ==
    IF <<uid, sym>> \in DOMAIN pf THEN pf[<<uid, sym>>].shares ELSE Zero

\* Sum of shares * avg_price over a set of position rows
RECURSIVE CostOf(_, _)
CostOf(pf, keys) ==
    IF keys = {} THEN Zero
    ELSE LET k == CHOOSE x \in keys : TRUE
         IN  RAdd(RMul(pf[k].shares, pf[k].avg_price), CostOf(pf, keys \ {k}))

\* balance + sum over the account's positions of shares * avg_price
Exposure(L, uid) ==
    RAdd(get_balance(L.balance, uid),
         CostOf(L.portfolio, {k \in DOMAIN L.portfolio : k[1] = uid}))

\* What rounding may amount to in the sums and quotients of a few trades:
\* 2^-20, about a millionth
Rounding == <<1, <<1>>, -20>>

RAbs(a) == IF SignOf(a) < 0 THEN RNeg(a) ELSE a

\* x and y differ by no more than rounding
Close(x, y) == RLeq(RAbs(RSub(x, y)), Rounding)

\* What of the ledger belongs to one account
AccountView(L, uid) ==
    [balance |-> get_balance(L.balance, uid),
     positions |-> [k \in {x \in DOMAIN L.portfolio : x[1] = uid} |-> L.portfolio[k]],
     transactions |-> SelectSeq(L.transactions, LAMBDA x : x.user_id = uid)]

\* The two threads have answered two overlapping requests of one account
PairDone ==
    /\ epoch.n = 2
    /\ \A t \in Threads : thr[t].pc = "done" /\ thr[t].req.kind \in {"buy", "sell"}
    /\ thr[1].req.uid = thr[2].req.uid

\* The ledger and the responses are those of running a's request, then b's
SerialOutcome(a, b) ==
    LET first == SerialExec(epoch.base, thr[a].req)
        second == SerialExec(first.ledger, thr[b].req)
        uid == thr[a].req.uid
    IN  /\ AccountView(Ledger, uid) = AccountView(second.ledger, uid)
        /\ thr[a].resp = first.resp
        /\ thr[b].resp = second.resp

(***************************************************************************)
(* Properties                                                              *)
(***************************************************************************)

\* C1: two overlapping trade requests of one account end with the balance,
\* positions, transaction log and responses of one of their two serial
\* executions.
C1_Serializable ==
    PairDone => SerialOutcome(1, 2) \/ SerialOutcome(2, 1)

\* C2: every stored balance equals 25000 minus the totals of the account's
\* BUY transactions plus the totals of its SELL transactions.
C2_BalanceMatchesLog ==
    \A uid \in DOMAIN user_balance :
        user_balance[uid] =
            RAdd(RSub(R(INITIAL_BALANCE), SumTotals(transactions, uid, "BUY")),
                 SumTotals(transactions, uid, "SELL"))

\* C3: the shares held in every position (0 without a row) equal the shares
\* of the account's BUY transactions of the symbol minus those of its SELL
\* transactions.
C3_SharesMatchLog ==
    \A uid \in Users, sym \in StoreSymbols :
        Held(portfolio, uid, sym) =
            RSub(SumShares(transactions, uid, sym, "BUY"),
                 SumShares(transactions, uid, sym, "SELL"))

\* C4: every stored balance is non-negative, in every state of every
\* interleaving of concurrent buys and sells.
C4_BalanceNonNegative ==
    \A uid \in DOMAIN user_balance : RLeq(Zero, user_balance[uid])

\* C4 witness: overlapping buys have spent more than the account ever had
\* (a lost balance update), the case in which a negative balance would show
C4_Witness ==
    \E uid \in DOMAIN user_balance :
        RLess(RAdd(R(INITIAL_BALANCE), SumTotals(transactions, uid, "SELL")),
              SumTotals(transactions, uid, "BUY"))

(***************************************************************************)
(* A request that ran alone: base is the ledger it started in, the ledger  *)
(* now is the one it left                                                  *)
(***************************************************************************)
Answered(t, kind) ==
    /\ thr[t].pc = "done"
    /\ thr[t].req.kind = kind
    /\ epoch.n = 1
    /\ \A u \in Threads \ {t} : thr[u].pc = "idle"

\* shares > 0, a symbol, a resolved price > 0
WellFormed(r) == RLess(Zero, r.shrs) /\ r.sym # <<>> /\ RLess(Zero, r.prc)

\* The request left the account's balance, all positions and the log alone
Untouched(uid) ==
    /\ user_balance[uid] = epoch.base.balance[uid]
    /\ portfolio = epoch.base.portfolio
    /\ transactions = epoch.base.transactions

\* Sum of `total` over the account's transactions of one type and symbol
RECURSIVE SumCost(_, _, _, _)
SumCost(log, uid, sym, type) ==
    IF log = <<>> THEN Zero
    ELSE LET x == Head(log)
         IN  RAdd(IF x.user_id = uid /\ x.symbol = sym /\ x.type = type
                  THEN x.total ELSE Zero,
                  SumCost(Tail(log), uid, sym, type))

\* C5: a buy whose total exceeds the balance is answered "Insufficient funds"
\* and leaves balance, positions and log unchanged; a buy whose total equals
\* the balance succeeds and leaves balance 0.
C5_FundsCheck ==
    \A t \in Threads :
        Answered(t, "buy") /\ WellFormed(thr[t].req) =>
            LET r == thr[t].req
                total == RMul(r.shrs, r.prc)
                bal == epoch.base.balance[r.uid]
            IN  /\ RLess(bal, total) =>
                      /\ thr[t].resp = Error("Insufficient funds")
                      /\ Untouched(r.uid)
                /\ bal = total =>
                      /\ thr[t].resp.status = "ok"
                      /\ user_balance[r.uid] = Zero

\* C5 witness: a first buy of exactly the initial balance went through and
\* left 0, and the buy just answered was refused for lack of funds
C5_Witness ==
    \E t \in Threads :
        /\ Answered(t, "buy")
        /\ thr[t].resp = Error("Insufficient funds")
        /\ user_balance[thr[t].req.uid] = Zero
        /\ Len(transactions) = 1
        /\ transactions[1].total = R(INITIAL_BALANCE)

\* C6: selling exactly the held shares removes the position row; selling more
\* than held, or a symbol without position, is answered "Not enough shares"
\* and leaves balance, positions and log unchanged.
C6_SharesCheck ==
    \A t \in Threads :
        Answered(t, "sell") /\ WellFormed(thr[t].req) =>
            LET r == thr[t].req
                key == <<r.uid, r.sym>>
                held == Held(epoch.base.portfolio, r.uid, r.sym)
            IN  /\ (key \notin DOMAIN epoch.base.portfolio \/ RLess(held, r.shrs)) =>
                      /\ thr[t].resp = Error("Not enough shares")
                      /\ Untouched(r.uid)
                /\ (key \in DOMAIN epoch.base.portfolio /\ held = r.shrs) =>
                      /\ thr[t].resp.status = "ok"
                      /\ key \notin DOMAIN portfolio

\* C6 witness: a sell of all the shares held was answered and the row is gone
C6_Witness ==
    \E t \in Threads :
        /\ Answered(t, "sell")
        /\ thr[t].resp.status = "ok"
        /\ <<thr[t].req.uid, thr[t].req.sym>> \in DOMAIN epoch.base.portfolio
        /\ Held(epoch.base.portfolio, thr[t].req.uid, thr[t].req.sym)
               = thr[t].req.shrs
        /\ <<thr[t].req.uid, thr[t].req.sym>> \notin DOMAIN portfolio

\* C7: the first buy of a symbol creates the position with avgCost = price;
\* a later buy of shares at price on (oldShares, oldAvgCost) yields
\* oldShares + shares at (oldAvgCost*oldShares + shares*price) / (oldShares +
\* shares), each operation rounded as doubles are; so a position built by
\* buys alone has, up to rounding, avgCost = sum of the buys' totals / sum
\* of their shares.
C7_AverageCost ==
    /\ \A t \in Threads :
          (Answered(t, "buy") /\ thr[t].resp.status = "ok") =>
              LET r == thr[t].req
                  key == <<r.uid, r.sym>>
                  old == epoch.base.portfolio
              IN  /\ key \in DOMAIN portfolio
                  /\ portfolio[key] =
                        IF key \notin DOMAIN old
                        THEN [shares |-> r.shrs, avg_price |-> r.prc]
                        ELSE [shares |-> RAdd(old[key].shares, r.shrs),
                              avg_price |->
                                  RDiv(RAdd(RMul(old[key].avg_price, old[key].shares),
                                            RMul(r.shrs, r.prc)),
                                       RAdd(old[key].shares, r.shrs))]
    /\ \A key \in DOMAIN portfolio :
          SumShares(transactions, key[1], key[2], "SELL") = Zero =>
              Close(portfolio[key].avg_price,
                    RDiv(SumCost(transactions, key[1], key[2], "BUY"),
                         SumShares(transactions, key[1], key[2], "BUY")))

\* C7 witness: 10 shares at 500, then 10 at 600, give 20 shares at 550
C7_Witness ==
    \E t \in Threads :
        /\ Answered(t, "buy")
        /\ thr[t].resp.status = "ok"
        /\ thr[t].req.shrs = R(10)
        /\ thr[t].req.prc = R(600)
        /\ <<thr[t].req.uid, thr[t].req.sym>> \in DOMAIN epoch.base.portfolio
        /\ epoch.base.portfolio[<<thr[t].req.uid, thr[t].req.sym>>]
               = [shares |-> R(10), avg_price |-> R(500)]
        /\ portfolio[<<thr[t].req.uid, thr[t].req.sym>>]
               = [shares |-> R(20), avg_price |-> R(550)]

\* C8: a successful sell credits the balance by shares * price and records
\* and returns pnl = (price - avgCost before the sell) * shares, positive
\* above avgCost and negative below it; every BUY transaction has pnl 0.
C8_SellProceedsAndPnl ==
    /\ \A t \in Threads :
          (Answered(t, "sell") /\ thr[t].resp.status = "ok") =>
              LET r == thr[t].req
                  old == epoch.base.portfolio[<<r.uid, r.sym>>]
                  pnl == RMul(RSub(r.prc, old.avg_price), r.shrs)
                  tx == transactions[Len(transactions)]
              IN  /\ user_balance[r.uid] =
                         RAdd(epoch.base.balance[r.uid], RMul(r.shrs, r.prc))
                  /\ thr[t].resp.pnl = pnl
                  /\ tx.type = "SELL" /\ tx.pnl = pnl
                  /\ RLess(old.avg_price, r.prc) => RLess(Zero, thr[t].resp.pnl)
                  /\ RLess(r.prc, old.avg_price) => RLess(thr[t].resp.pnl, Zero)
    /\ \A i \in 1..Len(transactions) :
          transactions[i].type = "BUY" => transactions[i].pnl = Zero

\* C8 witness: a sell below the average cost was answered with a loss
C8_Witness ==
    \E t \in Threads :
        /\ Answered(t, "sell")
        /\ thr[t].resp.status = "ok"
        /\ RLess(thr[t].req.prc,
                 epoch.base.portfolio[<<thr[t].req.uid, thr[t].req.sym>>].avg_price)
        /\ RLess(thr[t].resp.pnl, Zero)

\* C9: a sell that leaves shares reduces the position by the sold amount,
\* keeps its avgCost, and leaves every other position unchanged.
C9_PartialSell ==
    \A t \in Threads :
        (Answered(t, "sell") /\ thr[t].resp.status = "ok") =>
            LET r == thr[t].req
                key == <<r.uid, r.sym>>
                old == epoch.base.portfolio
            IN  RLess(r.shrs, old[key].shares) =>
                    /\ DOMAIN portfolio = DOMAIN old
                    /\ portfolio[key] =
                          [shares |-> RSub(old[key].shares, r.shrs),
                           avg_price |-> old[key].avg_price]
                    /\ \A k \in DOMAIN old \ {key} : portfolio[k] = old[k]

\* C9 witness: part of a position was sold while the account held another
C9_Witness ==
    \E t \in Threads :
        /\ Answered(t, "sell")
        /\ thr[t].resp.status = "ok"
        /\ <<thr[t].req.uid, thr[t].req.sym>> \in DOMAIN portfolio
        /\ \E k \in DOMAIN portfolio :
              k[1] = thr[t].req.uid /\ k[2] # thr[t].req.sym

\* C10 as stated: no successful trade changes balance + sum of shares *
\* avgCost over the account's positions by more than rounding.
C10_ExposureConstant ==
    \A t \in Threads, kind \in {"buy", "sell"} :
        (Answered(t, kind) /\ thr[t].resp.status = "ok") =>
            Close(Exposure(Ledger, thr[t].req.uid),
                  Exposure(epoch.base, thr[t].req.uid))

\* C10 amended: up to rounding, a successful buy leaves balance + sum of
\* shares * avgCost unchanged and a successful sell changes it by its
\* realized pnl.
C10_ExposureChangesByPnl ==
    \A t \in Threads :
        /\ (Answered(t, "buy") /\ thr[t].resp.status = "ok") =>
              Close(Exposure(Ledger, thr[t].req.uid),
                    Exposure(epoch.base, thr[t].req.uid))
        /\ (Answered(t, "sell") /\ thr[t].resp.status = "ok") =>
              Close(Exposure(Ledger, thr[t].req.uid),
                    RAdd(Exposure(epoch.base, thr[t].req.uid), thr[t].resp.pnl))

\* C10 witness: a sell with a non-zero pnl was answered
C10_Witness ==
    \E t \in Threads :
        /\ Answered(t, "sell")
        /\ thr[t].resp.status = "ok"
        /\ thr[t].resp.pnl # Zero

\* C11: every stored position row has shares > 0, in every state of every
\* interleaving of buys and sells: a position left with no shares is deleted.
C11_PositionsPositive ==
    \A key \in DOMAIN portfolio : RLess(Zero, portfolio[key].shares)

\* C11 witness: a sell was answered that left its position no shares, and
\* the row is gone
C11_Witness ==
    \E t \in Threads :
        /\ thr[t].pc = "done"
        /\ thr[t].req.kind = "sell"
        /\ thr[t].resp.status = "ok"
        /\ <<thr[t].req.uid, thr[t].req.sym>> \notin DOMAIN portfolio
        /\ RSub(SumShares(transactions, thr[t].req.uid, thr[t].req.sym, "BUY"),
                SumShares(transactions, thr[t].req.uid, thr[t].req.sym, "SELL"))
               = Zero

\* The step in which thread t sends the response of a trade
Responds(t) ==
    /\ thr'[t] # thr[t]
    /\ thr'[t].pc = "done"
    /\ thr'[t].req.kind \in {"buy", "sell"}

\* C12: the transaction log only grows at its end (every earlier log is a
\* prefix of every later one); a trade answered ok appends exactly one
\* transaction, its own, and a trade answered otherwise appends none.
C12_LogAppendOnly ==
    [][/\ Len(transactions') >= Len(transactions)
       /\ SubSeq(transactions', 1, Len(transactions)) = transactions
       /\ \A t \in Threads :
             Responds(t) =>
                 IF thr'[t].resp.status = "ok"
                 THEN /\ Len(transactions') = Len(transactions) + 1
                      /\ LET tx == transactions'[Len(transactions')]
                             r == thr'[t].req
                         IN  /\ tx.user_id = r.uid
                             /\ tx.symbol = r.sym
                             /\ tx.type = (IF r.kind = "buy" THEN "BUY" ELSE "SELL")
                             /\ tx.shares = r.shrs
                             /\ tx.price = r.prc
                 ELSE transactions' = transactions]_vars

\* C12 witness: the log holds two transactions and a trade has been refused
C12_Witness ==
    /\ Len(transactions) >= 2
    /\ \E t \in Threads :
          /\ thr[t].pc = "done"
          /\ thr[t].req.kind \in {"buy", "sell"}
          /\ thr[t].resp.status = "error"

\* A step of thread t's trade request up to the price: the step that takes
\* the request, or the second lookup of the price
Prices(t) ==
    /\ thr'[t] # thr[t]
    /\ thr'[t].req.kind \in {"buy", "sell"}
    /\ Free(t) \/ thr[t].pc \in {"buy_lookup", "sell_lookup"}

\* The price of thread t's request is resolved
Resolved(l) == l.pc \notin {"buy_lookup", "sell_lookup"}

\* C14: a trade with shares <= 0 or no symbol is answered "Invalid
\* parameters" in the step that takes the request, one whose resolved price
\* is <= 0 is answered "Price not available" in the step that resolves the
\* price, and no step up to there changes the balances, positions or log of
\* any account.
C14_RejectedBeforeStore ==
    [][\A t \in Threads :
          Prices(t) =>
              LET r == thr'[t].req
                  invalid == RLeq(r.shrs, Zero) \/ r.sym = <<>>
              IN  /\ Ledger' = Ledger
                  /\ invalid =>
                        /\ Free(t)
                        /\ thr'[t].pc = "done"
                        /\ thr'[t].resp = Error("Invalid parameters")
                  /\ (~invalid /\ Resolved(thr'[t]) /\ RLeq(r.prc, Zero)) =>
                        /\ thr'[t].pc = "done"
                        /\ thr'[t].resp = Error("Price not available")]_vars

\* C14 witness: with transactions in the store, a sell has been answered
\* "Price not available" after its second lookup of the price
C14_Witness ==
    /\ transactions # <<>>
    /\ prices # EmptyDict
    /\ \E t \in Threads :
          /\ Answered(t, "sell")
          /\ thr[t].req.sym = CIT
          /\ thr[t].resp = Error("Price not available")

\* The quote the two lookups of the last request found: the first one's, or
\* without it the second one's, or None
Found == IF asked.first # None THEN asked.first ELSE asked.second

\* The request as the handler would keep it had the caller sent price c
WithClientPrice(c) ==
    Request(asked.kind, asked.uid, Upper(asked.sym), asked.shrs,
            LivePrice(Found, c))

\* C13: the price of a trade is the price the cache holds for the symbol as
\* sent (upper-cased) when it is looked up; without such an entry the price
\* the cache holds, when that is looked up next, for the symbol with each
\* '.' replaced by '-'; only without either the clientPrice. With a cached
\* quote found, the response and the ledger are the same whatever the
\* clientPrice.
C13_PricePrecedence ==
    \A t \in Threads, kind \in {"buy", "sell"} :
        Answered(t, kind) /\ thr[t].resp # Error("Invalid parameters") =>
            /\ thr[t].req.prc =
                   IF asked.first # None THEN asked.first.price
                   ELSE IF asked.second # None THEN asked.second.price
                   ELSE asked.client
            /\ Found # None =>
                   \A c \in ClientPrices :
                       LET alt == SerialExec(epoch.base, WithClientPrice(c))
                       IN  /\ alt.resp = thr[t].resp
                           /\ alt.ledger.portfolio = portfolio
                           /\ alt.ledger.transactions = transactions
                           /\ alt.ledger.balance[asked.uid]
                                  = user_balance[asked.uid]

\* C13 witness: a buy of the dotted symbol, which only the dashed key of the
\* cache holds, was made at the cached 610 and not at the 500 the caller sent
C13_Witness ==
    \E t \in Threads :
        /\ Answered(t, "buy")
        /\ thr[t].resp.status = "ok"
        /\ Upper(asked.sym) = A_DOT_P
        /\ asked.first = None
        /\ asked.client = R(500)
        /\ thr[t].resp.price = R(610)

\* C15: for every account, one without a balance row included (get_balance
\* is 25000 for it), after a successful buy get_balance returns its earlier
\* value minus the total, after a successful sell its earlier value plus the
\* proceeds, and the response reports what get_balance then returns.
C15_BalanceAfterTrade ==
    \A t \in Threads :
        /\ (Answered(t, "buy") /\ thr[t].resp.status = "ok") =>
              LET r == thr[t].req
              IN  /\ get_balance(user_balance, r.uid) =
                         RSub(get_balance(epoch.base.balance, r.uid),
                              RMul(r.shrs, r.prc))
                  /\ thr[t].resp.balance = get_balance(user_balance, r.uid)
        /\ (Answered(t, "sell") /\ thr[t].resp.status = "ok") =>
              LET r == thr[t].req
              IN  /\ get_balance(user_balance, r.uid) =
                         RAdd(get_balance(epoch.base.balance, r.uid),
                              RMul(r.shrs, r.prc))
                  /\ thr[t].resp.balance = get_balance(user_balance, r.uid)

\* The first adapter result of a tick that holds data, None if none does
FirstNonEmpty(calls) ==
    IF calls # <<>> /\ DOMAIN calls[1] # {} THEN calls[1]
    ELSE IF Len(calls) >= 2 /\ DOMAIN calls[2] # {} THEN calls[2]
    ELSE None

\* C16: a tick calls the primary adapter, and the fallback adapter only if
\* the primary returned no data; the cache changes only by a tick writing
\* an entry of its first non-empty adapter result; a tick for which both
\* adapters returned no data ends without having merged.
C16_FirstNonEmptyMerged ==
    /\ [](\A r \in Refreshers :
             refr[r].pc \in {"merge", "merging", "report", "end"}
             /\ refr[r].last # "raised" =>
                 LET c == refr[r].calls
                 IN  /\ Len(c) \in {1, 2}
                     /\ DOMAIN c[1] # {} => Len(c) = 1
                     /\ DOMAIN c[1] = {} => Len(c) = 2
                     /\ refr[r].pc \in {"report", "end"} =>
                            refr[r].last = (IF FirstNonEmpty(c) = None
                                            THEN "empty" ELSE "merged"))
    /\ [][prices' # prices =>
              \E r \in Refreshers :
                  /\ refr[r].pc = "merging"
                  /\ FirstNonEmpty(refr[r].calls) # None
                  /\ \E k \in DOMAIN FirstNonEmpty(refr[r].calls) :
                        prices' = [x \in DOMAIN prices \cup {k} |->
                                      IF x = k
                                      THEN FirstNonEmpty(refr[r].calls)[k]
                                      ELSE prices[x]]]_vars

\* C16 witness: a tick whose primary adapter returned no data has merged
\* what the fallback adapter returned
C16_Witness ==
    \E r \in Refreshers :
        /\ refr[r].pc = "end"
        /\ refr[r].last = "merged"
        /\ Len(refr[r].calls) = 2
        /\ prices = refr[r].calls[2]

\* C17: when a merge is complete the cache holds, for each symbol of the
\* snapshot, the snapshot's quote, and for every other symbol the quote it
\* held when the merge began; no step removes a symbol from the cache.
C17_MergeReplaces ==
    /\ [](\A r \in Refreshers :
             refr[r].pc = "merging" /\ refr[r].pending = {} =>
                 LET snap == refr[r].results
                     old == refr[r].pre
                 IN  /\ DOMAIN prices = DOMAIN old \cup DOMAIN snap
                     /\ \A k \in DOMAIN snap : prices[k] = snap[k]
                     /\ \A k \in DOMAIN old \ DOMAIN snap : prices[k] = old[k])
    /\ [][DOMAIN prices \subseteq DOMAIN prices']_vars

\* C17 witness: a merge of a snapshot of API alone into a cache holding API
\* and CIT is complete: API has the new quote, CIT is as before
C17_Witness ==
    \E r \in Refreshers :
        /\ refr[r].pc = "merging"
        /\ refr[r].pending = {}
        /\ DOMAIN refr[r].results = {API}
        /\ DOMAIN refr[r].pre = {API, CIT}
        /\ refr[r].pre[API] # prices[API]
        /\ refr[r].pre[CIT] = prices[CIT]

\* The threads inside a `with _prices_lock:` block
InCritical ==
    {r \in Refreshers : refr[r].pc = "merging"}
    \cup (IF rd.pc \in {"reading", "unlock"} THEN {"reader"} ELSE {})

\* C18: at most one thread is inside a merge, a get or a getAll; what get and
\* getAll are about to return is, entry for entry, the cache as the last
\* completed merge left it, no merge being under way.
C18_MutualExclusion ==
    /\ Cardinality(InCritical) <= 1
    /\ rd.pc = "unlock" =>
          /\ prices = merged
          /\ rd.op = "get" => rd.result = get_price(merged, rd.sym)
          /\ rd.op = "getAll" => rd.result = {merged[k] : k \in DOMAIN merged}

\* C18 witness: getAll is about to return two quotes while a refresh
\* thread waits for the lock with a snapshot to merge
C18_Witness ==
    /\ rd.pc = "unlock"
    /\ rd.op = "getAll"
    /\ Cardinality(rd.result) = 2
    /\ \E r \in Refreshers : refr[r].pc = "merge"

\* C19: price_loop keeps starting ticks for ever, whatever its ticks do.
C19_LoopNeverEnds ==
    /\ []<>(refr["loop"].pc = "start")
    /\ []<>(refr["loop"].pc # "start")

\* The thread has begun the fetch of its first call of refresh_all_prices
BegunFetch(r) == refr[r].pc # "start" \/ refr[r].last # "none"

\* C20: the initial fetch runs once, and it is over (merged, or found
\* empty) before price_loop's first tick begins its fetch.
C20_InitialFetchFirst ==
    /\ refr["init"].pc = "start" => refr["init"].last = "none"
    /\ BegunFetch("loop") => refr["init"].pc = "end"


(***************************************************************************)
(* The cache and the trade handlers                                        *)
(***************************************************************************)
\* A request thread takes a step of buy or sell
TradeStep ==
    \E t \in Threads : thr'[t] # thr[t] /\ thr'[t].req.kind \in {"buy", "sell"}

\* C21: no step of a buy or sell request, accepted or refused, calls a quote
\* adapter or changes the price cache; the cache changes only in a step of
\* a refresh, which is no step of a request and writes nothing to the store.
C21_TradesLeaveCache ==
    [][/\ TradeStep => prices' = prices /\ refr' = refr /\ feed' = feed
       /\ prices' # prices =>
              ~TradeStep /\ Ledger' = Ledger /\ session' = session]_vars

\* An accepted buy and a refused one have both been answered from a cache
\* that held no quote, and the cache still holds none
C21_Witness ==
    /\ prices = EmptyDict
    /\ \E t, u \in Threads :
          /\ thr[t].pc = "done" /\ thr[t].req.kind = "buy"
          /\ thr[t].resp.status = "ok"
          /\ thr[u].pc = "done" /\ thr[u].req.kind \in {"buy", "sell"}
          /\ thr[u].resp.status = "error"

(***************************************************************************)
(* The account snapshot                                                    *)
(***************************************************************************)
\* C22: the transactions of a snapshot are listed newest first in insertion
\* order, also among rows of one timestamp: of any two listed rows the one
\* inserted later (the larger id) comes first, and no more than 500 are
\* listed.
C22_NewestFirst ==
    view # None /\ view.op = "me" =>
        LET tx == view.transactions
        IN  /\ \A i, j \in 1..Len(tx) : i < j => tx[i].id > tx[j].id
            /\ Len(tx) <= TX_LIMIT

(***************************************************************************)
(* Limit orders                                                            *)
(***************************************************************************)
\* The step answers a request of the handler `op`
Answers(op) == view' # view /\ view'.op = op

\* C23: a limit order's status only moves from active to cancelled. No step
\* (add, cancel, watch, trade, refresh, login, snapshot) removes a row or
\* makes a cancelled row active; a cancel of the caller's own order, active
\* or already cancelled, answers ok and leaves it cancelled; and a snapshot
\* lists among the active orders no row that is cancelled.
C23_StatusOneWay ==
    [][/\ Len(limit_orders') >= Len(limit_orders)
       /\ \A i \in DOMAIN limit_orders :
             /\ limit_orders'[i].status \in {"active", "cancelled"}
             /\ limit_orders[i].status = "cancelled" =>
                    limit_orders'[i].status = "cancelled"
       /\ Answers("lo_cancel") =>
             /\ view'.ok
             /\ \A i \in DOMAIN limit_orders :
                    i = view'.id /\ limit_orders[i].user_id = view'.uid =>
                        limit_orders'[i].status = "cancelled"
       /\ Answers("me") =>
             \A k \in 1..Len(view'.limitOrders) :
                 limit_orders[view'.limitOrders[k].id].status = "active"]_vars

(***************************************************************************)
(* Isolation of accounts                                                   *)
(***************************************************************************)
\* What the store holds for one account: its balance row, its positions,
\* its transactions and its limit orders with their ids
Holdings(L, orders, uid) ==
    [row |-> IF uid \in DOMAIN L.balance THEN L.balance[uid] ELSE None,
     account |-> AccountView(L, uid),
     orders |-> SelectSeq(Rows(orders), LAMBDA x : x.row.user_id = uid)]

\* The step is a step of a request issued for the account
RequestOf(uid) ==
    \/ \E t \in Threads : thr'[t] # thr[t] /\ thr'[t].req.uid = uid
    \/ view' # view /\ view'.uid = uid
    \/ uid \in session' \ session

\* C28: whatever a step changes of an account's balance, positions,
\* transactions or limit orders, the step belongs to a request issued for
\* that account: a buy, sell, login, limit-order add or limit-order cancel
\* of account A, accepted or not, leaves every other account as it was.
C28_AccountsIsolated ==
    [][\A b \in Users :
          Holdings(Ledger', limit_orders', b) # Holdings(Ledger, limit_orders, b)
              => RequestOf(b)]_vars

\* An account has asked to cancel an active order of the other account and
\* got ok; the order is still active. Both accounts hold positions.
C28_Witness ==
    /\ view # None /\ view.op = "lo_cancel" /\ view.ok
    /\ view.id \in DOMAIN limit_orders
    /\ limit_orders[view.id].user_id # view.uid
    /\ view.found.status = "active"
    /\ limit_orders[view.id].status = "active"
    /\ \A u \in Users : \E k \in DOMAIN portfolio : k[1] = u

(***************************************************************************)
(* Storage exceptions                                                      *)
(***************************************************************************)
\* C24: no login, buy or sell ends in a storage exception that its handler
\* did not catch: every answered request has succeeded or got one of its
\* declared errors.
C24_NoStorageException ==
    \A t \in Threads :
        thr[t].pc = "done" /\ thr[t].req.kind \in {"login", "buy", "sell"} =>
            thr[t].resp.status \in {"ok", "error"}

(***************************************************************************)
(* What the adapters accept                                                *)
(***************************************************************************)
\* A record with a symbol and a last price above 0, all fields readable
Valid(item) == item.parses /\ item.sym # <<>> /\ RLess(Zero, item.ltp)

\* C25: no entry of the price cache has the empty symbol as its key or a
\* price that is not above 0.
C25_CacheEntriesValid ==
    \A k \in DOMAIN prices : k # <<>> /\ RLess(Zero, prices[k].price)

\* C26: an adapter called on a response with at least one valid record
\* returns every valid record's symbol, whatever other records, readable or
\* not, the response holds.
C26_BadRecordSkipped ==
    feed.adapter # "none" =>
        \A i \in DOMAIN feed.response :
            Valid(feed.response[i]) => feed.response[i].sym \in DOMAIN feed.results

(***************************************************************************)
(* Refreshes in progress                                                   *)
(***************************************************************************)
\* The thread is inside refresh_all_prices: it has called an adapter and has
\* not yet returned
InProgress(r) == refr[r].pc \in {"fallback", "merge", "merging"}

\* C27: at most one refresh (fetch followed by merge) is in progress at any
\* time, so that no merge writes quotes fetched before the quotes it
\* overwrites.
C27_OneRefreshAtATime ==
    Cardinality({r \in Refreshers : InProgress(r)}) <= 1

\* The scraper's result holds an entry for every valid row of the page
ScraperSkipsBadRows ==
    feed.adapter = "web" =>
        \A i \in DOMAIN feed.response :
            Valid(feed.response[i]) => feed.response[i].sym \in DOMAIN feed.results

=============================================================================
